---- MODULE Spec2Model ----
(***************************************************************************)
(* A model of the socks5 workspace: the wire codec (socks5 crate), the     *)
(* client handshake (client crate) and the server handshake, dispatch and  *)
(* relay (server crate).                                                   *)
(*                                                                         *)
(* Bytes are integers 0..255, streams are sequences of bytes.  A decoder   *)
(* is an operator from the bytes a stream holds (and an offset already     *)
(* consumed) to a result record                                            *)
(*     [st, val, reply, n]                                                 *)
(* st = "ok"    : val is the decoded message, n bytes consumed in all      *)
(* st = "err"   : an Error carrying reply was returned                     *)
(* st = "eof"   : read_exact ran out of bytes (an I/O error if the peer    *)
(*                has closed, otherwise the read is still pending)         *)
(* st = "panic" : the code panicked (slice index out of range)             *)
(***************************************************************************)
EXTENDS Integers, Sequences, FiniteSets, TLC

VARIABLES
    codecOp,     \* codec harness: the operation applied, "idle" before
    codecIn,     \* codec harness: the bytes of the stream
    codecAddr,   \* codec harness: the Address codecIn encodes, or NoVal
    codecOut,    \* codec harness: the result of the operation
    given,       \* constructor harness: the arguments of the constructor
    built,       \* constructor harness: the value constructed, or NoVal
    wire,        \* constructor harness: the encoding of built, NoVal before
    back,        \* constructor harness: the decoding of wire, NoVal before
    faulty,      \* whether the transport's reads and writes may fail
    c2s,         \* bytes the client wrote that the server has not read yet
    s2c,         \* bytes the server wrote that the client has not read yet
    cClosed,     \* the client's end of the connection is closed
    sClosed,     \* the server's end of the connection is closed
    c_pc,        \* client::connect: its position
    c_auth_info, \* client::connect: auth_info, NoVal for None
    c_dest,      \* client::connect: dest
    c_result,    \* client::connect: what it returned
    c_writes,    \* every message the client wrote and flushed, in order
    c_reads,     \* every read the client completed, with its outcome, in order
    s_pc,        \* server::proxy: its position
    s_src,       \* server::proxy: src, the address of the inbound peer
    s_request,   \* server::proxy: authentication_request
    s_header,    \* server::proxy: header
    s_err,       \* server::proxy: e, the error a failure reply is built from
    s_dest_addr, \* server::proxy: dest_addr
    s_result,    \* server::proxy: what it returned
    s_writes,    \* every message the server wrote and flushed, in order
    s_reads,     \* every read the server completed, with its outcome, in order
    lookups,     \* calls of the resolver callback
    dials,       \* calls of Async::<TcpStream>::connect
    dest_tcp,    \* server::proxy: dest_tcp, "none" before the dial
    s2d,         \* bytes the server wrote to the destination
    d2s,         \* bytes the destination wrote that the server has not read yet
    dClosed,     \* the destination's end of dest_tcp is closed
    copy_buf,    \* per copy loop, the bytes it has read and not yet written
    sent,        \* per side, the payload bytes it has sent during the relay
    parked       \* the connection of the proxy task that is not being polled

codecVars == <<codecOp, codecIn, codecAddr, codecOut, given, built, wire, back>>

netVars == <<faulty, c2s, s2c, cClosed, sClosed>>

clientVars == <<c_pc, c_auth_info, c_dest, c_result, c_writes, c_reads>>

serverVars ==
    <<s_pc, s_src, s_request, s_header, s_err, s_dest_addr, s_result, s_writes,
      s_reads, lookups, dials, dest_tcp>>

relayVars == <<s2d, d2s, dClosed, copy_buf, sent>>

vars == <<codecVars, netVars, clientVars, serverVars, relayVars, parked>>

(***************************************************************************)
(* Bounds of the model.                                                    *)
(***************************************************************************)
\* domain names of every length 0..MaxNameLen are enumerated (and 255)
MaxNameLen == 2
\* method lists of every length 0..MaxMethods are enumerated
MaxMethods == 2
\* payload bytes each side may send during the relay
MaxPayload == 2

(***************************************************************************)
(* Program constants.                                                      *)
(***************************************************************************)
VERSION == 5
\* the largest value of a one-byte length field (u8::MAX)
U8Max == 255
\* capacity of the ArrayVec holding a domain name
DomainCapacity == 2048

NoVal == [kind |-> "none"]

Ok(v, n) == [st |-> "ok", val |-> v, reply |-> "none", n |-> n]
Err(r, n) == [st |-> "err", val |-> NoVal, reply |-> r, n |-> n]
Eof(n) == [st |-> "eof", val |-> NoVal, reply |-> "GeneralFailure", n |-> n]
Panic(n) == [st |-> "panic", val |-> NoVal, reply |-> "none", n |-> n]

(***************************************************************************)
(* message.rs: the closed enums and their wire values.                     *)
(***************************************************************************)
Methods == {"NONE", "GSSAPI", "PASSWORD", "NotAcceptable"}

MethodAsU8(m) ==
    CASE m = "NONE" -> 0
      [] m = "GSSAPI" -> 1
      [] m = "PASSWORD" -> 2
      [] m = "NotAcceptable" -> 255

\* a conversion that takes every unknown method byte for NONE
MethodTryFromUnknownAsNone(b) ==
    CASE b = 1 -> "GSSAPI"
      [] b = 2 -> "PASSWORD"
      [] b = 255 -> "NotAcceptable"
      [] OTHER -> "NONE"

MethodTryFrom(b) ==
    CASE b = 0 -> "NONE"
      [] b = 1 -> "GSSAPI"
      [] b = 2 -> "PASSWORD"
      [] b = 255 -> "NotAcceptable"
      [] OTHER -> "unsupported"

MethodSizeHint == 1

Commands == {"Connect", "Bind", "UdpAssociate"}

CommandAsU8(c) ==
    CASE c = "Connect" -> 1
      [] c = "Bind" -> 2
      [] c = "UdpAssociate" -> 3

CommandTryFrom(b) ==
    CASE b = 1 -> "Connect"
      [] b = 2 -> "Bind"
      [] b = 3 -> "UdpAssociate"
      [] OTHER -> "unsupported"

RepliesSeq ==
    << "Succeeded", "GeneralFailure", "ConnectionNotAllowed",
       "NetworkUnreachable", "HostUnreachable", "ConnectionRefused",
       "TtlExpired", "CommandNotSupported", "AddressTypeNotSupported" >>

Replies == {RepliesSeq[i] : i \in 1..Len(RepliesSeq)}

RepliesAsU8(r) == CHOOSE i \in 0..(Len(RepliesSeq) - 1) : RepliesSeq[i + 1] = r

RepliesTryFrom(b) ==
    IF b < Len(RepliesSeq) THEN RepliesSeq[b + 1] ELSE "unsupported"

\* impl From<Replies> for Error: the reply is carried, the message is chosen
ErrorFromReplies(reply) ==
    [reply |-> reply,
     message |->
        CASE reply = "Succeeded" -> "succeeded"
          [] reply = "GeneralFailure" -> "general failure"
          [] reply = "ConnectionNotAllowed" -> "connection not allowed"
          [] reply = "NetworkUnreachable" -> "network unreachable"
          [] reply = "HostUnreachable" -> "host unreachable"
          [] reply = "ConnectionRefused" -> "connection refused"
          [] reply = "TtlExpired" -> "TTL expired"
          [] reply = "CommandNotSupported" -> "command not supported"
          [] reply = "AddressTypeNotSupported" -> "address type not supported"]

(***************************************************************************)
(* Byte helpers.                                                           *)
(***************************************************************************)
\* BufMut::put_u16: big-endian
U16Be(p) == << p \div 256, p % 256 >>

\* u16::from_be_bytes
U16FromBe(b) == b[1] * 256 + b[2]

\* read_exact of k bytes after off consumed bytes can complete
Avail(s, off, k) == Len(s) >= off + k

Take(s, off, k) == SubSeq(s, off + 1, off + k)

\* Rust's buf[lo..=hi] (0-based, inclusive): panics when hi + 1 > buf.len()
SliceInclInBounds(buf, lo, hi) == hi + 1 <= Len(buf) /\ lo <= hi + 1

SliceIncl(buf, lo, hi) == SubSeq(buf, lo + 1, hi + 1)

\* Rust's buf[lo..hi] (0-based, exclusive end)
SliceInBounds(buf, lo, hi) == hi <= Len(buf) /\ lo <= hi

Slice(buf, lo, hi) == SubSeq(buf, lo + 1, hi)

(***************************************************************************)
(* address.rs                                                              *)
(***************************************************************************)
SocketV4(octets, port) == [kind |-> "V4", host |-> octets, port |-> port]

SocketV6(octets, port) == [kind |-> "V6", host |-> octets, port |-> port]

DomainName(name, port) == [kind |-> "Domain", host |-> name, port |-> port]

IsSocket(a) == a.kind \in {"V4", "V6"}

\* Ipv6Addr::segments: eight big-endian u16 of the sixteen octets
Segments(octets) == [i \in 1..8 |-> octets[2 * i - 1] * 256 + octets[2 * i]]

RECURSIVE PutSegments(_, _)
PutSegments(segs, i) ==
    IF i > Len(segs) THEN << >> ELSE U16Be(segs[i]) \o PutSegments(segs, i + 1)

\* a tag table that takes the unassigned tag 2 for a domain name
AddressTypeTryFromTag2(b) ==
    CASE b = 1 -> "Ipv4"
      [] b \in {2, 3} -> "DomainName"
      [] b = 4 -> "Ipv6"
      [] OTHER -> "unsupported"

AddressTypeTryFrom(b) ==
    CASE b = 1 -> "Ipv4"
      [] b = 3 -> "DomainName"
      [] b = 4 -> "Ipv6"
      [] OTHER -> "unsupported"

AddressDecodeIpv4(s, off) ==
    IF ~Avail(s, off, 6) THEN Eof(Len(s))
    ELSE LET buf == Take(s, off, 6) IN
         IF ~SliceInclInBounds(buf, 1, 4) \/ ~SliceInclInBounds(buf, 5, 6)
         THEN Panic(off + 6)
         ELSE Ok(SocketV4(SliceIncl(buf, 1, 4), U16FromBe(SliceIncl(buf, 5, 6))),
                 off + 6)

AddressDecodeIpv6(s, off) ==
    IF ~Avail(s, off, 18) THEN Eof(Len(s))
    ELSE LET buf == Take(s, off, 18) IN
         IF ~SliceInclInBounds(buf, 1, 16) \/ ~SliceInclInBounds(buf, 17, 18)
         THEN Panic(off + 18)
         ELSE Ok(SocketV6(SliceIncl(buf, 1, 16), U16FromBe(SliceIncl(buf, 17, 18))),
                 off + 18)

AddressDecodeDomainName(s, off) ==
    IF ~Avail(s, off, 1) THEN Eof(Len(s))
    ELSE LET domain_len == s[off + 1] IN
         IF ~Avail(s, off + 1, domain_len + 2) THEN Eof(Len(s))
         ELSE LET buf == Take(s, off + 1, domain_len + 2) IN
              IF ~SliceInBounds(buf, 0, domain_len)
                 \/ ~SliceInBounds(buf, domain_len, domain_len + 2)
                 \/ domain_len > DomainCapacity
              THEN Panic(off + 1 + domain_len + 2)
              ELSE Ok(DomainName(Slice(buf, 0, domain_len),
                                 U16FromBe(Slice(buf, domain_len, domain_len + 2))),
                      off + 1 + domain_len + 2)

\* impl Decode for Address: decode, after off bytes of s were consumed
AddressDecode(s, off) ==
    IF ~Avail(s, off, 1) THEN Eof(Len(s))
    ELSE LET addr_type == AddressTypeTryFrom(s[off + 1]) IN
         CASE addr_type = "unsupported" -> Err("AddressTypeNotSupported", off + 1)
           [] addr_type = "Ipv4" -> AddressDecodeIpv4(s, off + 1)
           [] addr_type = "Ipv6" -> AddressDecodeIpv6(s, off + 1)
           [] addr_type = "DomainName" -> AddressDecodeDomainName(s, off + 1)

\* impl Encode for Address: encode
AddressEncode(a) ==
    CASE a.kind = "V4" -> <<1>> \o a.host \o U16Be(a.port)
      [] a.kind = "V6" -> <<4>> \o PutSegments(Segments(a.host), 1) \o U16Be(a.port)
      [] a.kind = "Domain" -> <<3, Len(a.host) % 256>> \o a.host \o U16Be(a.port)

(***************************************************************************)
(* head.rs                                                                 *)
(***************************************************************************)
RECURSIVE MethodsTryFrom(_, _)
\* the loop of AuthenticationRequest::decode over buf: the methods parsed
\* from position i on, or <<"unsupported">> at the first byte that fails
MethodsTryFrom(buf, i) ==
    IF i > Len(buf) THEN << >>
    ELSE LET method == MethodTryFrom(buf[i]) IN
         IF method = "unsupported" THEN << "unsupported" >>
         ELSE LET rest == MethodsTryFrom(buf, i + 1) IN
              IF rest = << "unsupported" >> THEN rest ELSE << method >> \o rest

AuthenticationRequest(methods) == [kind |-> "AuthenticationRequest", methods |-> methods]

\* impl Decode for AuthenticationRequest: decode
AuthenticationRequestDecode(s, off) ==
    IF ~Avail(s, off, 1) THEN Eof(Len(s))
    ELSE LET n == s[off + 1] IN
         IF ~Avail(s, off + 1, n * MethodSizeHint) THEN Eof(Len(s))
         ELSE LET buf == Take(s, off + 1, n * MethodSizeHint)
                  methods == MethodsTryFrom(buf, 1)
              IN IF methods = << "unsupported" >>
                 THEN Err("GeneralFailure", off + 1 + n * MethodSizeHint)
                 ELSE Ok(AuthenticationRequest(methods), off + 1 + n * MethodSizeHint)

\* impl Encode for AuthenticationRequest: encode
AuthenticationRequestEncode(m) ==
    << Len(m.methods) % 256 >> \o [i \in 1..Len(m.methods) |-> MethodAsU8(m.methods[i])]

\* a test that looks at the first offered method only
RequiredAuthenticationFirstOnly(m) ==
    Len(m.methods) = 0 \/ m.methods[1] # "NONE"

\* AuthenticationRequest::required_authentication
RequiredAuthentication(m) == ~(\E i \in 1..Len(m.methods) : m.methods[i] = "NONE")

AuthenticationResponse(method) == [kind |-> "AuthenticationResponse", method |-> method]

\* impl Decode for AuthenticationResponse: decode
AuthenticationResponseDecode(s, off) ==
    IF ~Avail(s, off, 1) THEN Eof(Len(s))
    ELSE LET method == MethodTryFrom(s[off + 1]) IN
         IF method = "unsupported" THEN Err("GeneralFailure", off + 1)
         ELSE Ok(AuthenticationResponse(method), off + 1)

\* impl Encode for AuthenticationResponse: encode
AuthenticationResponseEncode(m) == << MethodAsU8(m.method) >>

SubNegotiationAuthenticationRequest(username, password) ==
    [kind |-> "SubNegotiationAuthenticationRequest",
     username |-> username, password |-> password]

\* SubNegotiationAuthenticationRequest::encode
SubNegotiationAuthenticationRequestEncode(m) ==
    << 1, Len(m.username) % 256 >> \o m.username
        \o << Len(m.password) % 256 >> \o m.password

SubNegotiationAuthenticationResponse(result) ==
    [kind |-> "SubNegotiationAuthenticationResponse", result |-> result]

\* a decode that takes any sub-negotiation version
SubNegotiationAuthenticationResponseDecodeAnyVersion(s, off) ==
    IF ~Avail(s, off, 2) THEN Eof(Len(s))
    ELSE Ok(SubNegotiationAuthenticationResponse(s[off + 2]), off + 2)

\* impl Decode for SubNegotiationAuthenticationResponse: decode
SubNegotiationAuthenticationResponseDecode(s, off) ==
    IF ~Avail(s, off, 1) THEN Eof(Len(s))
    ELSE IF s[off + 1] # 1 THEN Err("GeneralFailure", off + 1)
    ELSE IF ~Avail(s, off + 1, 1) THEN Eof(Len(s))
    ELSE Ok(SubNegotiationAuthenticationResponse(s[off + 2]), off + 2)

\* SubNegotiationAuthenticationResponse::success
Success(m) == m.result = 0

TcpRequestHeader(command, address) ==
    [kind |-> "TcpRequestHeader", command |-> command, address |-> address]

\* the tail of both header decoders: the reserved byte, then the Address
ReservedThenAddress(s, off) ==
    IF ~Avail(s, off, 1) THEN Eof(Len(s)) ELSE AddressDecode(s, off + 1)

\* a decode that reads the whole header before it rejects the command, and
\* rejects it as CommandNotSupported
TcpRequestHeaderDecodeReadsAll(s, off) ==
    IF ~Avail(s, off, 1) THEN Eof(Len(s))
    ELSE LET command == CommandTryFrom(s[off + 1])
             address == ReservedThenAddress(s, off + 1)
         IN IF address.st # "ok" THEN address
            ELSE IF command = "unsupported"
                 THEN Err("CommandNotSupported", address.n)
                 ELSE Ok(TcpRequestHeader(command, address.val), address.n)

\* impl Decode for TcpRequestHeader: decode
TcpRequestHeaderDecode(s, off) ==
    IF ~Avail(s, off, 1) THEN Eof(Len(s))
    ELSE LET command == CommandTryFrom(s[off + 1]) IN
         IF command = "unsupported" THEN Err("GeneralFailure", off + 1)
         ELSE LET address == ReservedThenAddress(s, off + 1) IN
              IF address.st # "ok" THEN address
              ELSE Ok(TcpRequestHeader(command, address.val), address.n)

\* impl Encode for TcpRequestHeader: encode
TcpRequestHeaderEncode(m) ==
    << CommandAsU8(m.command), 0 >> \o AddressEncode(m.address)

TcpResponseHeader(reply, address) ==
    [kind |-> "TcpResponseHeader", reply |-> reply, address |-> address]

\* TcpResponseHeader::is_success
IsSuccess(m) == m.reply = "Succeeded"

\* impl Decode for TcpResponseHeader: decode
TcpResponseHeaderDecode(s, off) ==
    IF ~Avail(s, off, 1) THEN Eof(Len(s))
    ELSE LET reply == RepliesTryFrom(s[off + 1]) IN
         IF reply = "unsupported" THEN Err("GeneralFailure", off + 1)
         ELSE LET address == ReservedThenAddress(s, off + 1) IN
              IF address.st # "ok" THEN address
              ELSE Ok(TcpResponseHeader(reply, address.val), address.n)

\* impl Encode for TcpResponseHeader: encode
TcpResponseHeaderEncode(m) ==
    << RepliesAsU8(m.reply), 0 >> \o AddressEncode(m.address)

\* a response that forgets the reply code of the error
IntoResponseGeneralFailure(reply, address) ==
    TcpResponseHeader("GeneralFailure", address)

\* Replies::into_response
IntoResponse(reply, address) == TcpResponseHeader(reply, address)

(***************************************************************************)
(* ser.rs                                                                  *)
(***************************************************************************)
\* Encode::encode, dispatched on the message type
Encode(m) ==
    CASE m.kind = "AuthenticationRequest" -> AuthenticationRequestEncode(m)
      [] m.kind = "AuthenticationResponse" -> AuthenticationResponseEncode(m)
      [] m.kind = "TcpRequestHeader" -> TcpRequestHeaderEncode(m)
      [] m.kind = "TcpResponseHeader" -> TcpResponseHeaderEncode(m)

\* a framing that leaves the version byte out
AsBytesNoVersion(m) == Encode(m)

\* Encode::as_bytes
AsBytes(m) == << VERSION >> \o Encode(m)

\* a version check that lets SOCKS4 through as well
VersionOkSocks4(b) == b \in {4, VERSION}

\* the outcome of Decode::read's version check on byte b
VersionOk(b) == b = VERSION

\* Decode::decode, dispatched on the message type
Decode(type, s, off) ==
    CASE type = "AuthenticationRequest" -> AuthenticationRequestDecode(s, off)
      [] type = "AuthenticationResponse" -> AuthenticationResponseDecode(s, off)
      [] type = "TcpRequestHeader" -> TcpRequestHeaderDecode(s, off)
      [] type = "TcpResponseHeader" -> TcpResponseHeaderDecode(s, off)

\* Decode::read of a message of the given type
Read(type, s) ==
    IF ~Avail(s, 0, 1) THEN Eof(Len(s))
    ELSE IF ~VersionOk(s[1]) THEN Err("ConnectionRefused", 1)
    ELSE Decode(type, s, 1)

(***************************************************************************)
(* Sample values the specifications draw their inputs from.                *)
(***************************************************************************)
SampleBytes == {0, 1, 2, 3, 4, 5, 9, 255}

SamplePorts == {0, 80, 258, 65535}

SampleV4 == { <<127, 0, 0, 1>>, <<1, 2, 3, 4>> }

SampleV6 ==
    { [i \in 1..16 |-> IF i = 16 THEN 1 ELSE 0], [i \in 1..16 |-> 16 * i + 1] }

\* the lengths of the sample domain names
NameLens == (0..MaxNameLen) \cup {U8Max}

SampleNames ==
    { [i \in 1..n |-> 97 + ((i + k) % 26)] : n \in NameLens, k \in {0, 3} }

SocketAddrs ==
    { SocketV4(h, p) : h \in SampleV4, p \in SamplePorts }
        \cup { SocketV6(h, p) : h \in SampleV6, p \in SamplePorts }

DomainAddrs == { DomainName(h, p) : h \in SampleNames, p \in SamplePorts }

SampleAddresses == SocketAddrs \cup DomainAddrs

\* every byte sequence over S of length 0..n
RECURSIVE SeqsUpTo(_, _)
SeqsUpTo(S, n) ==
    IF n = 0 THEN { << >> }
    ELSE LET shorter == SeqsUpTo(S, n - 1) IN
         shorter \cup { <<b>> \o s : b \in S, s \in { x \in shorter : Len(x) = n - 1 } }

(***************************************************************************)
(* The parts a specification does not use stay as they are here.           *)
(***************************************************************************)
NoResult == [kind |-> "none", reply |-> "none"]

\* nothing is being constructed
ConstructOff ==
    /\ given = NoVal
    /\ built = NoVal
    /\ wire = NoVal
    /\ back = NoVal

CodecOff ==
    /\ codecOp = "off"
    /\ codecIn = << >>
    /\ codecAddr = NoVal
    /\ codecOut = Eof(0)
    /\ ConstructOff

NetOff ==
    /\ faulty = FALSE
    /\ c2s = << >>
    /\ s2c = << >>
    /\ cClosed = FALSE
    /\ sClosed = FALSE

ClientOff ==
    /\ c_pc = "off"
    /\ c_auth_info = NoVal
    /\ c_dest = NoVal
    /\ c_result = NoResult
    /\ c_writes = << >>
    /\ c_reads = << >>

RelayIdle ==
    /\ s2d = << >>
    /\ d2s = << >>
    /\ dClosed = FALSE
    /\ copy_buf = [d \in {"c2d", "d2c"} |-> << >>]
    /\ sent = [side \in {"client", "dest"} |-> 0]

ServerOff ==
    /\ s_pc = "off"
    /\ s_src = NoVal
    /\ s_request = NoVal
    /\ s_header = NoVal
    /\ s_err = NoResult
    /\ s_dest_addr = NoVal
    /\ s_result = NoResult
    /\ s_writes = << >>
    /\ s_reads = << >>
    /\ lookups = 0
    /\ dials = 0
    /\ dest_tcp = "none"
    /\ RelayIdle

(***************************************************************************)
(* The codec harness: one decode operation applied to one stream.          *)
(***************************************************************************)
\* streams that are no encoding of a sample address
RawStreams ==
    SeqsUpTo(SampleBytes, 3)
        \cup { <<v, b, r>> \o AddressEncode(a) :
                 v \in {4, 5}, b \in {0, 1, 2, 3, 4, 8, 9}, r \in {0, 9},
                 a \in { SocketV4(<<1, 2, 3, 4>>, 258),
                         DomainName(<<97, 98>>, 258) } }
        \cup { <<t>> \o s : t \in {0, 2, 5, 255},
                            s \in { AddressEncode(a) : a \in SampleAddresses } }

CodecOps ==
    { "Address::decode", "AuthenticationRequest::read",
      "AuthenticationResponse::read", "TcpRequestHeader::read",
      "TcpResponseHeader::read", "SubNegotiationAuthenticationResponse::decode" }

ReadOps ==
    { "AuthenticationRequest::read", "AuthenticationResponse::read",
      "TcpRequestHeader::read", "TcpResponseHeader::read" }

CodecInit ==
    /\ NetOff
    /\ parked = NoVal
    /\ ClientOff
    /\ ServerOff
    /\ ConstructOff
    /\ codecOp = "idle"
    /\ codecOut = Eof(0)
    /\ \/ /\ codecAddr \in SampleAddresses
          /\ \E trail \in { << >>, <<9>> } : codecIn = AddressEncode(codecAddr) \o trail
       \/ /\ codecAddr = NoVal
          /\ codecIn \in RawStreams

DoAddressDecode ==
    /\ codecOp = "idle"
    /\ codecOp' = "Address::decode"
    /\ codecOut' = AddressDecode(codecIn, 0)
    /\ UNCHANGED <<parked, codecIn, codecAddr, given, built, wire, back, netVars, clientVars,
                   serverVars, relayVars>>

DoReadAuthenticationRequest ==
    /\ codecOp = "idle"
    /\ codecOp' = "AuthenticationRequest::read"
    /\ codecOut' = Read("AuthenticationRequest", codecIn)
    /\ UNCHANGED <<parked, codecIn, codecAddr, given, built, wire, back, netVars, clientVars,
                   serverVars, relayVars>>

DoReadAuthenticationResponse ==
    /\ codecOp = "idle"
    /\ codecOp' = "AuthenticationResponse::read"
    /\ codecOut' = Read("AuthenticationResponse", codecIn)
    /\ UNCHANGED <<parked, codecIn, codecAddr, given, built, wire, back, netVars, clientVars,
                   serverVars, relayVars>>

DoReadTcpRequestHeader ==
    /\ codecOp = "idle"
    /\ codecOp' = "TcpRequestHeader::read"
    /\ codecOut' = Read("TcpRequestHeader", codecIn)
    /\ UNCHANGED <<parked, codecIn, codecAddr, given, built, wire, back, netVars, clientVars,
                   serverVars, relayVars>>

DoReadTcpResponseHeader ==
    /\ codecOp = "idle"
    /\ codecOp' = "TcpResponseHeader::read"
    /\ codecOut' = Read("TcpResponseHeader", codecIn)
    /\ UNCHANGED <<parked, codecIn, codecAddr, given, built, wire, back, netVars, clientVars,
                   serverVars, relayVars>>

DoDecodeSubNegotiationResponse ==
    /\ codecOp = "idle"
    /\ codecOp' = "SubNegotiationAuthenticationResponse::decode"
    /\ codecOut' = SubNegotiationAuthenticationResponseDecode(codecIn, 0)
    /\ UNCHANGED <<parked, codecIn, codecAddr, given, built, wire, back, netVars, clientVars,
                   serverVars, relayVars>>

CodecNext ==
    \/ DoAddressDecode
    \/ DoReadAuthenticationRequest
    \/ DoReadAuthenticationResponse
    \/ DoReadTcpRequestHeader
    \/ DoReadTcpResponseHeader
    \/ DoDecodeSubNegotiationResponse

SpecCodec == CodecInit /\ [][CodecNext]_vars

(***************************************************************************)
(* Claims about the codec, checked under SpecCodec.                        *)
(***************************************************************************)
\* the addresses C1 speaks of: every socket address, and the domain names
\* of length 0, 1 and 255
RoundTripClass(a) ==
    a # NoVal /\ (IsSocket(a) \/ Len(a.host) \in {0, 1, U8Max})

\* C1: for every IPv4 or IPv6 socket address and every domain name of length
\* 0, 1 or 255, Address::decode on the bytes of Address::encode(a) returns
\* Ok(a) and consumes exactly the encoded bytes, without a panic.
C1_AddressRoundTrip ==
    (codecOp = "Address::decode" /\ RoundTripClass(codecAddr))
        => codecOut = Ok(codecAddr, Len(AddressEncode(codecAddr)))

\* C3: Decode::read of any of the four framed message types on a stream
\* whose first byte is not 0x05 returns an Error with reply ConnectionRefused
\* and consumes the version byte only (the message's decode is not invoked).
C3_VersionCheck ==
    (codecOp \in ReadOps /\ Len(codecIn) >= 1 /\ codecIn[1] # 5)
        => codecOut = Err("ConnectionRefused", 1)

C3_Witness ==
    /\ codecOp = "TcpRequestHeader::read"
    /\ Len(codecIn) > 3
    /\ codecIn[1] = 4
    /\ codecOut.st = "err"

\* C4: Address::decode on a stream whose tag byte is outside {1, 3, 4}
\* returns an Error with reply AddressTypeNotSupported and consumes the tag
\* byte only (no address or port byte is read).
C4_UnknownAddressTag ==
    (codecOp = "Address::decode" /\ Len(codecIn) >= 1 /\ codecIn[1] \notin {1, 3, 4})
        => codecOut = Err("AddressTypeNotSupported", 1)

C4_Witness ==
    /\ codecOp = "Address::decode"
    /\ Len(codecIn) > 3
    /\ codecIn[1] = 2
    /\ codecOut.st = "err"

(***************************************************************************)
(* The transport: a duplex byte stream with ordered read_exact and         *)
(* write_all + flush.  A read whose bytes have not all arrived completes   *)
(* only once they have, or fails once the peer has closed.                 *)
(***************************************************************************)
Drop(s, n) == SubSeq(s, n + 1, Len(s))

\* whether one transport operation succeeds (TRUE) or fails (FALSE)
IoOutcomes == IF faulty THEN {TRUE, FALSE} ELSE {TRUE}

\* the result of a read on stream s: an I/O failure surfaces through
\* impl From<std::io::Error> for Error as GeneralFailure
ReadResult(io, r) == IF io THEN r ELSE Err("GeneralFailure", 0)

\* a read can complete: all its bytes are there, or the peer has closed
ReadCompletes(r, peerClosed) == r.st = "eof" => peerClosed

Written(kind, bytes) == [msg |-> kind, bytes |-> bytes]

\* a completed read: the operation, its result and the bytes it consumed of s
ReadDone(op, r, s) == [op |-> op, out |-> r, bytes |-> Take(s, 0, r.n)]

(***************************************************************************)
(* client/src/lib.rs: connect                                              *)
(***************************************************************************)
SocksError(reply) == [kind |-> "Socks", reply |-> reply]

IoError == [kind |-> "Io", reply |-> "none"]

ClientError(kind) == [kind |-> kind, reply |-> "none"]

OkResult == [kind |-> "Ok", reply |-> "none"]

\* an offer that never asks for PASSWORD
OfferedMethodAlwaysNone(auth_info) == "NONE"

\* the method the client offers: let method = match auth_info
OfferedMethod(auth_info) == IF auth_info # NoVal THEN "PASSWORD" ELSE "NONE"

\* a match that takes PASSWORD without credentials for NONE
MatchMethodNoRequireAuth(method, auth_info) ==
    CASE method = "NONE" -> [pc |-> "Authenticated", result |-> NoResult]
      [] method = "PASSWORD" ->
            IF auth_info # NoVal
            THEN [pc |-> "SubNegotiating", result |-> NoResult]
            ELSE [pc |-> "Authenticated", result |-> NoResult]
      [] method = "NotAcceptable" ->
            [pc |-> "Failed", result |-> ClientError("NotAcceptable")]
      [] method = "GSSAPI" ->
            [pc |-> "Failed", result |-> ClientError("UnsupportMethodGssApi")]

\* a match that sub-negotiates whenever credentials were supplied
MatchMethodAlwaysAuth(method, auth_info) ==
    CASE method \in {"NONE", "PASSWORD"} ->
            IF auth_info # NoVal
            THEN [pc |-> "SubNegotiating", result |-> NoResult]
            ELSE IF method = "NONE"
                 THEN [pc |-> "Authenticated", result |-> NoResult]
                 ELSE [pc |-> "Failed", result |-> ClientError("RequireAuth")]
      [] method = "NotAcceptable" ->
            [pc |-> "Failed", result |-> ClientError("NotAcceptable")]
      [] method = "GSSAPI" ->
            [pc |-> "Failed", result |-> ClientError("UnsupportMethodGssApi")]

\* a match that goes on to the request once PASSWORD is selected
MatchMethodSkipsSubNegotiation(method, auth_info) ==
    CASE method = "NONE" -> [pc |-> "Authenticated", result |-> NoResult]
      [] method = "PASSWORD" ->
            IF auth_info # NoVal
            THEN [pc |-> "Authenticated", result |-> NoResult]
            ELSE [pc |-> "Failed", result |-> ClientError("RequireAuth")]
      [] method = "NotAcceptable" ->
            [pc |-> "Failed", result |-> ClientError("NotAcceptable")]
      [] method = "GSSAPI" ->
            [pc |-> "Failed", result |-> ClientError("UnsupportMethodGssApi")]

\* a match that takes GSSAPI and NotAcceptable for NONE
MatchMethodRefusalAsNone(method, auth_info) ==
    CASE method \in {"NONE", "NotAcceptable", "GSSAPI"} ->
            [pc |-> "Authenticated", result |-> NoResult]
      [] method = "PASSWORD" ->
            IF auth_info # NoVal
            THEN [pc |-> "SubNegotiating", result |-> NoResult]
            ELSE [pc |-> "Failed", result |-> ClientError("RequireAuth")]

\* match auth_resp.method: the position connect moves to and, where it
\* returns, what it returns
MatchMethod(method, auth_info) ==
    CASE method = "NONE" -> [pc |-> "Authenticated", result |-> NoResult]
      [] method = "PASSWORD" ->
            IF auth_info # NoVal
            THEN [pc |-> "SubNegotiating", result |-> NoResult]
            ELSE [pc |-> "Failed", result |-> ClientError("RequireAuth")]
      [] method = "NotAcceptable" ->
            [pc |-> "Failed", result |-> ClientError("NotAcceptable")]
      [] method = "GSSAPI" ->
            [pc |-> "Failed", result |-> ClientError("UnsupportMethodGssApi")]

\* a test that forgets the result of the sub-negotiation
MatchSubNegotiationIgnored(auth_resp) ==
    [pc |-> "Authenticated", result |-> NoResult]

\* if !auth_resp.success() { return Err(Error::AuthFailure) }
MatchSubNegotiation(auth_resp) ==
    IF ~Success(auth_resp)
    THEN [pc |-> "Failed", result |-> ClientError("AuthFailure")]
    ELSE [pc |-> "Authenticated", result |-> NoResult]

\* if tcp_resp.is_success() { Ok(()) } else { Err(tcp_resp.reply.into()) }
MatchResponse(tcp_resp) ==
    IF IsSuccess(tcp_resp)
    THEN [pc |-> "Connected", result |-> OkResult]
    ELSE [pc |-> "Failed", result |-> SocksError(ErrorFromReplies(tcp_resp.reply).reply)]

\* write_all + flush of bytes by the client
ClientWrite(io, kind, bytes, next) ==
    IF io
    THEN /\ c2s' = c2s \o bytes
         /\ c_writes' = Append(c_writes, Written(kind, bytes))
         /\ c_pc' = next
         /\ c_result' = c_result
    ELSE /\ c_pc' = "Failed"
         /\ c_result' = IoError
         /\ UNCHANGED <<c2s, c_writes>>

\* write(auth_req, connect).await?
CWriteAuthenticationRequest ==
    /\ c_pc = "Start"
    /\ \E io \in IoOutcomes :
          ClientWrite(io, "AuthenticationRequest",
                      AsBytes(AuthenticationRequest(<< OfferedMethod(c_auth_info) >>)),
                      "MethodSent")
    /\ UNCHANGED <<parked, codecVars, serverVars, relayVars, faulty, s2c, cClosed, sClosed, c_auth_info, c_dest, c_reads>>

\* AuthenticationResponse::read(connect).await? and the match on its method
CReadAuthenticationResponse ==
    /\ c_pc = "MethodSent"
    /\ \E io \in IoOutcomes :
          LET r == ReadResult(io, Read("AuthenticationResponse", s2c))
              to == IF r.st = "ok" THEN MatchMethod(r.val.method, c_auth_info)
                    ELSE [pc |-> "Failed", result |-> SocksError(r.reply)]
          IN /\ ReadCompletes(r, sClosed)
             /\ s2c' = Drop(s2c, r.n)
             /\ c_reads' = Append(c_reads, ReadDone("AuthenticationResponse", r, s2c))
             /\ c_pc' = to.pc
             /\ c_result' = to.result
    /\ UNCHANGED <<parked, codecVars, serverVars, relayVars, faulty, c2s, cClosed, sClosed, c_auth_info, c_dest, c_writes>>

\* connect.write_all(&a.encode()).await?; connect.flush().await?
CWriteSubNegotiationRequest ==
    /\ c_pc = "SubNegotiating"
    /\ \E io \in IoOutcomes :
          ClientWrite(io, "SubNegotiationAuthenticationRequest",
                      SubNegotiationAuthenticationRequestEncode(c_auth_info),
                      "SubNegotiationSent")
    /\ UNCHANGED <<parked, codecVars, serverVars, relayVars, faulty, s2c, cClosed, sClosed, c_auth_info, c_dest, c_reads>>

\* SubNegotiationAuthenticationResponse::decode(connect).await? and the
\* test of success()
CReadSubNegotiationResponse ==
    /\ c_pc = "SubNegotiationSent"
    /\ \E io \in IoOutcomes :
          LET r == ReadResult(io, SubNegotiationAuthenticationResponseDecode(s2c, 0))
              to == IF r.st = "ok" THEN MatchSubNegotiation(r.val)
                    ELSE [pc |-> "Failed", result |-> SocksError(r.reply)]
          IN /\ ReadCompletes(r, sClosed)
             /\ s2c' = Drop(s2c, r.n)
             /\ c_reads' = Append(c_reads,
                                  ReadDone("SubNegotiationAuthenticationResponse", r, s2c))
             /\ c_pc' = to.pc
             /\ c_result' = to.result
    /\ UNCHANGED <<parked, codecVars, serverVars, relayVars, faulty, c2s, cClosed, sClosed, c_auth_info, c_dest, c_writes>>

\* write(TcpRequestHeader::new(Command::Connect, dest), connect).await?
CWriteTcpRequestHeader ==
    /\ c_pc = "Authenticated"
    /\ \E io \in IoOutcomes :
          ClientWrite(io, "TcpRequestHeader",
                      AsBytes(TcpRequestHeader("Connect", c_dest)), "RequestSent")
    /\ UNCHANGED <<parked, codecVars, serverVars, relayVars, faulty, s2c, cClosed, sClosed, c_auth_info, c_dest, c_reads>>

\* TcpResponseHeader::read(connect).await? and the test of is_success()
CReadTcpResponseHeader ==
    /\ c_pc = "RequestSent"
    /\ \E io \in IoOutcomes :
          LET r == ReadResult(io, Read("TcpResponseHeader", s2c))
              to == CASE r.st = "ok" -> MatchResponse(r.val)
                      [] r.st = "panic" -> [pc |-> "Panicked", result |-> NoResult]
                      [] OTHER -> [pc |-> "Failed", result |-> SocksError(r.reply)]
          IN /\ ReadCompletes(r, sClosed)
             /\ s2c' = Drop(s2c, r.n)
             /\ c_reads' = Append(c_reads, ReadDone("TcpResponseHeader", r, s2c))
             /\ c_pc' = to.pc
             /\ c_result' = to.result
    /\ UNCHANGED <<parked, codecVars, serverVars, relayVars, faulty, c2s, cClosed, sClosed, c_auth_info, c_dest, c_writes>>

ClientNext ==
    \/ CWriteAuthenticationRequest
    \/ CReadAuthenticationResponse
    \/ CWriteSubNegotiationRequest
    \/ CReadSubNegotiationResponse
    \/ CWriteTcpRequestHeader
    \/ CReadTcpResponseHeader

(***************************************************************************)
(* SpecClient: connect against a peer that may answer with any bytes.      *)
(***************************************************************************)
SampleCredentials ==
    { SubNegotiationAuthenticationRequest(<<117>>, <<112, 119>>),
      SubNegotiationAuthenticationRequest(<< >>, << >>) }

ClientDests == { SocketV4(<<1, 2, 3, 4>>, 258), DomainName(<<97, 98>>, 80) }

\* answers to the AuthenticationRequest, well-formed or not
PeerMethodAnswers == { <<5, m>> : m \in {0, 1, 2, 255, 9} } \cup { <<4, 0>>, <<5>> }

\* answers to the sub-negotiation request
PeerSubNegotiationAnswers == { <<1, 0>>, <<1, 1>>, <<1, 255>>, <<0, 0>>, <<1>> }

\* answers to the TcpRequestHeader
PeerResponses ==
    { <<v, rep, 0>> \o AddressEncode(a) :
        v \in {5}, rep \in 0..9,
        a \in { SocketV4(<<1, 2, 3, 4>>, 258), DomainName(<<97, 98>>, 258),
                DomainName(<< >>, 0) } }
      \cup { <<4, 0, 0>> \o AddressEncode(DomainName(<<97>>, 80)),
             <<5, 0, 0, 2, 0, 0>>, <<5, 0>> }

PeerScripts ==
    { x \o y \o z : x \in PeerMethodAnswers,
                    y \in PeerSubNegotiationAnswers \cup { << >> },
                    z \in PeerResponses }
      \cup PeerMethodAnswers
      \cup { x \o y : x \in PeerMethodAnswers, y \in PeerSubNegotiationAnswers }

ClientStart(dests) ==
    /\ c_pc = "Start"
    /\ c_auth_info \in SampleCredentials \cup { NoVal }
    /\ c_dest \in dests
    /\ c_result = NoResult
    /\ c_writes = << >>
    /\ c_reads = << >>

ClientInit ==
    /\ CodecOff
    /\ parked = NoVal
    /\ ServerOff
    /\ ClientStart(ClientDests)
    /\ faulty \in BOOLEAN
    /\ c2s = << >>
    /\ s2c \in PeerScripts
    /\ cClosed = FALSE
    /\ sClosed = TRUE

SpecClient == ClientInit /\ [][ClientNext]_vars

(***************************************************************************)
(* Claims about the client handshake, checked under SpecClient.            *)
(***************************************************************************)
\* the number of entries of log whose field f is v
CountWrites(log, kind) == Cardinality({ i \in 1..Len(log) : log[i].msg = kind })

CountReads(log, op) == Cardinality({ i \in 1..Len(log) : log[i].op = op })

\* the AuthenticationResponse the client read selects method
Selected(method) ==
    /\ Len(c_reads) >= 1
    /\ c_reads[1].op = "AuthenticationResponse"
    /\ c_reads[1].out.st = "ok"
    /\ c_reads[1].out.val.method = method

\* C7: without credentials, an AuthenticationResponse selecting PASSWORD makes
\* connect fail with RequireAuth, and the client writes nothing after reading
\* it: all it ever wrote is its AuthenticationRequest 05 01 00.
C7_RequireAuth ==
    (c_auth_info = NoVal /\ Selected("PASSWORD"))
        => /\ c_pc = "Failed"
           /\ c_result = ClientError("RequireAuth")
           /\ Len(c_writes) = 1
           /\ c2s = <<5, 1, 0>>
           /\ Len(c_reads) = 1

C7_Witness ==
    /\ c_auth_info = NoVal
    /\ Selected("PASSWORD")
    /\ c_pc = "Failed"
    /\ Len(s2c) > 0

\* the sub-negotiation response the client read, once it has read one
SubNegotiationRead ==
    /\ Len(c_reads) >= 2
    /\ c_reads[2].op = "SubNegotiationAuthenticationResponse"
    /\ c_reads[2].out.st = "ok"

\* C8: with credentials and PASSWORD selected the client writes exactly one
\* sub-negotiation request (its second write, the encoding of auth_info) and
\* reads exactly one sub-negotiation response; a non-zero result byte makes
\* connect fail with AuthFailure with no TcpRequestHeader written, a zero
\* result byte makes the client go on to write the CONNECT request.
C8_SubNegotiation ==
    (c_auth_info # NoVal /\ Selected("PASSWORD"))
        => /\ CountWrites(c_writes, "SubNegotiationAuthenticationRequest")
                = (IF c_pc = "SubNegotiating" \/ Len(c_writes) = 1 THEN 0 ELSE 1)
           /\ c_pc = "SubNegotiating" \/ Len(c_writes) >= 2 \/ c_result = IoError
           /\ Len(c_writes) >= 2
                => c_writes[2] = Written("SubNegotiationAuthenticationRequest",
                                         <<1, Len(c_auth_info.username)>>
                                             \o c_auth_info.username
                                             \o <<Len(c_auth_info.password)>>
                                             \o c_auth_info.password)
           /\ CountReads(c_reads, "SubNegotiationAuthenticationResponse")
                = (IF Len(c_writes) >= 2 /\ c_pc # "SubNegotiationSent" THEN 1 ELSE 0)
           /\ (SubNegotiationRead /\ c_reads[2].bytes[2] # 0)
                => /\ c_pc = "Failed"
                   /\ c_result = ClientError("AuthFailure")
                   /\ CountWrites(c_writes, "TcpRequestHeader") = 0
           /\ (SubNegotiationRead /\ c_reads[2].bytes[2] = 0)
                => \/ c_pc = "Authenticated" /\ Len(c_writes) = 2
                   \/ c_pc = "Failed" /\ c_result = IoError /\ Len(c_writes) = 2
                   \/ /\ Len(c_writes) = 3
                      /\ c_writes[3].msg = "TcpRequestHeader"

C8_Witness ==
    /\ c_auth_info # NoVal
    /\ Selected("PASSWORD")
    /\ SubNegotiationRead
    /\ c_reads[2].bytes = <<1, 0>>
    /\ c_pc = "RequestSent"
    /\ CountWrites(c_writes, "SubNegotiationAuthenticationRequest") = 1

\* the rejected half of C8 is reached as well
C8_RejectedReached ==
    /\ c_auth_info # NoVal
    /\ Selected("PASSWORD")
    /\ SubNegotiationRead
    /\ c_reads[2].bytes = <<1, 1>>
    /\ c_result = ClientError("AuthFailure")

\* C9: when the AuthenticationResponse selects NONE the client does no
\* sub-negotiation, with or without credentials: it never writes a
\* sub-negotiation request nor reads a sub-negotiation response, and its next
\* write is the framed TcpRequestHeader{Connect, dest}: 05 01 00 + address.
C9_NoAuth ==
    Selected("NONE")
        => /\ CountWrites(c_writes, "SubNegotiationAuthenticationRequest") = 0
           /\ CountReads(c_reads, "SubNegotiationAuthenticationResponse") = 0
           /\ c_pc \notin {"SubNegotiating", "SubNegotiationSent"}
           /\ Len(c_reads) = 1 => c_pc \in {"Authenticated", "RequestSent", "Failed"}
           /\ (Len(c_reads) = 1 /\ c_pc = "Failed") => c_result = IoError
           /\ Len(c_writes) >= 2
                => c_writes[2] = Written("TcpRequestHeader",
                                         <<5, 1, 0>> \o AddressEncode(c_dest))

C9_Witness ==
    /\ c_auth_info # NoVal
    /\ Selected("NONE")
    /\ Len(c_writes) = 2
    /\ c_pc = "RequestSent"

\* the bytes of a well-formed TcpResponseHeader with reply byte rb
WellFormedResponses(rb) ==
    { <<5, rb, 0>> \o AddressEncode(a) :
        a \in { SocketV4(<<1, 2, 3, 4>>, 258), DomainName(<<97, 98>>, 258),
                DomainName(<< >>, 0) } }

\* the last read of the client consumed a well-formed TcpResponseHeader
\* with reply byte rb
ResponseOnWire(rb) ==
    /\ Len(c_reads) >= 1
    /\ c_reads[Len(c_reads)].op = "TcpResponseHeader"
    /\ c_reads[Len(c_reads)].bytes \in WellFormedResponses(rb)

\* C10: connect returns Ok exactly when every step succeeded and the
\* TcpResponseHeader it was sent has reply Succeeded; for every other reply
\* code r of a well-formed response it returns a socks error carrying r.
C10_ReplyDecidesResult ==
    /\ c_pc = "Connected"
         => /\ c_result = OkResult
            /\ ResponseOnWire(0)
            /\ c_writes[Len(c_writes)].msg = "TcpRequestHeader"
    /\ ResponseOnWire(0) => c_pc = "Connected" /\ c_result = OkResult
    /\ \A rb \in 1..8 :
          ResponseOnWire(rb)
              => c_pc = "Failed" /\ c_result = SocksError(RepliesSeq[rb + 1])

\* the three bytes of the AuthenticationRequest connect has to write first
FirstMessage == IF c_auth_info # NoVal THEN <<5, 1, 2>> ELSE <<5, 1, 0>>

\* C13: the first message the client writes is an AuthenticationRequest
\* offering exactly one method, PASSWORD if and only if the caller supplied
\* credentials and NONE otherwise (05 01 02 or 05 01 00); nothing is read,
\* and nothing else written, before it.
C13_FirstMessage ==
    /\ Len(c_writes) >= 1
         => /\ c_writes[1] = Written("AuthenticationRequest", FirstMessage)
            /\ SubSeq(c2s, 1, 3) = FirstMessage
    /\ Len(c_writes) = 0 => (c2s = << >> /\ Len(c_reads) = 0)
    /\ c_pc \notin {"Start", "Failed"} => Len(c_writes) >= 1
    /\ \A i \in 2..Len(c_writes) : c_writes[i].msg # "AuthenticationRequest"

C13_Witness ==
    /\ c_auth_info # NoVal
    /\ Len(c_writes) = 1
    /\ c2s = <<5, 1, 2>>
    /\ c_pc = "MethodSent"

\* the offer without credentials is reached as well
C13_NoneReached ==
    /\ c_auth_info = NoVal
    /\ c2s = <<5, 1, 0>>

(***************************************************************************)
(* server/src/lib.rs: proxy                                                *)
(***************************************************************************)
\* the method of the AuthenticationResponse built from the request
AnswerMethod(request) ==
    IF RequiredAuthentication(request) THEN "NotAcceptable" ELSE "NONE"

\* match header.command(): where proxy goes after a header was read
Dispatch(command) == IF command = "Connect" THEN "Resolve" ELSE "NotSupported"

\* what the resolver callback may answer for a name: an address or a failure
ResolverAnswers == { [ok |-> FALSE, host |-> << >>, kind |-> "none"],
                     [ok |-> TRUE, host |-> <<10, 0, 0, 7>>, kind |-> "V4"],
                     [ok |-> TRUE, host |-> [i \in 1..16 |-> i], kind |-> "V6"] }

\* a lookup that takes every address for a literal one
LookupSkipsResolver(address, answer) ==
    [ok |-> TRUE, addr |-> address, called |-> 0]

\* Address::lookup: the callback is called for a domain name only; its
\* failure becomes an Error with reply HostUnreachable
Lookup(address, answer) ==
    IF IsSocket(address) THEN [ok |-> TRUE, addr |-> address, called |-> 0]
    ELSE IF answer.ok
         THEN [ok |-> TRUE, called |-> 1,
               addr |-> [kind |-> answer.kind, host |-> answer.host,
                         port |-> address.port]]
         ELSE [ok |-> FALSE, addr |-> NoVal, called |-> 1]

\* a write whose failure is swallowed: proxy goes on as if it had succeeded
ServerWriteKeepsError(io, head, next, done) ==
    /\ s2c' = IF io THEN s2c \o AsBytes(head) ELSE s2c
    /\ s_writes' = IF io THEN Append(s_writes, Written(head.kind, AsBytes(head)))
                  ELSE s_writes
    /\ s_pc' = next
    /\ s_result' = done

\* write(head, c): write_all + flush of head.as_bytes() by the server; proxy
\* goes on to next, or returns done when next is "Done"
ServerWrite(io, head, next, done) ==
    IF io
    THEN /\ s2c' = s2c \o AsBytes(head)
         /\ s_writes' = Append(s_writes, Written(head.kind, AsBytes(head)))
         /\ s_pc' = next
         /\ s_result' = done
    ELSE /\ s_pc' = "Done"
         /\ s_result' = IoError
         /\ UNCHANGED <<s2c, s_writes>>

\* AuthenticationRequest::read(connect).await?
SReadAuthenticationRequest ==
    /\ s_pc = "Start"
    /\ \E io \in IoOutcomes :
          LET r == ReadResult(io, Read("AuthenticationRequest", c2s)) IN
          /\ ReadCompletes(r, cClosed)
          /\ c2s' = Drop(c2s, r.n)
          /\ s_reads' = Append(s_reads, ReadDone("AuthenticationRequest", r, c2s))
          /\ s_request' = r.val
          /\ s_pc' = IF r.st = "ok" THEN "AuthRead" ELSE "Done"
          /\ s_result' = IF r.st = "ok" THEN s_result ELSE SocksError(r.reply)
    /\ UNCHANGED <<parked, codecVars, clientVars, relayVars, faulty, s2c, cClosed, sClosed,
                   s_src, s_header, s_err, s_dest_addr, s_writes, lookups, dials, dest_tcp>>

\* a proxy that returns once it has answered NotAcceptable
SWriteAuthenticationResponseEndsOnRefusal ==
    /\ s_pc = "AuthRead"
    /\ \E io \in IoOutcomes :
          ServerWrite(io, AuthenticationResponse(AnswerMethod(s_request)),
                      IF RequiredAuthentication(s_request) THEN "Done"
                      ELSE "AuthNegotiated",
                      IF RequiredAuthentication(s_request)
                      THEN SocksError("GeneralFailure") ELSE s_result)
    /\ UNCHANGED <<parked, codecVars, clientVars, relayVars, faulty, c2s, cClosed, sClosed,
                   s_src, s_request, s_header, s_err, s_dest_addr, s_reads,
                   lookups, dials, dest_tcp>>

\* write(authentication_response, connect).await?
SWriteAuthenticationResponse ==
    /\ s_pc = "AuthRead"
    /\ \E io \in IoOutcomes :
          ServerWrite(io, AuthenticationResponse(AnswerMethod(s_request)),
                      "AuthNegotiated", s_result)
    /\ UNCHANGED <<parked, codecVars, clientVars, relayVars, faulty, c2s, cClosed, sClosed,
                   s_src, s_request, s_header, s_err, s_dest_addr, s_reads,
                   lookups, dials, dest_tcp>>

\* match TcpRequestHeader::read(connect).await, and the match on the command
SReadTcpRequestHeader ==
    /\ s_pc = "AuthNegotiated"
    /\ \E io \in IoOutcomes :
          LET r == ReadResult(io, Read("TcpRequestHeader", c2s)) IN
          /\ ReadCompletes(r, cClosed)
          /\ c2s' = Drop(c2s, r.n)
          /\ s_reads' = Append(s_reads, ReadDone("TcpRequestHeader", r, c2s))
          /\ s_header' = r.val
          /\ s_err' = IF r.st \in {"err", "eof"} THEN SocksError(r.reply) ELSE s_err
          /\ s_pc' = CASE r.st = "ok" -> Dispatch(r.val.command)
                       [] r.st = "panic" -> "Panicked"
                       [] OTHER -> "DecodeFailed"
    /\ UNCHANGED <<parked, codecVars, clientVars, relayVars, faulty, s2c, cClosed, sClosed,
                   s_src, s_request, s_dest_addr, s_result, s_writes, lookups, dials, dest_tcp>>

\* Err(e): write(e.reply.into_response(src.into()), connect).await?;
\* return Err(e.into())
SWriteDecodeFailure ==
    /\ s_pc = "DecodeFailed"
    /\ \E io \in IoOutcomes :
          ServerWrite(io, IntoResponse(s_err.reply, s_src), "Done", s_err)
    /\ UNCHANGED <<parked, codecVars, clientVars, relayVars, faulty, c2s, cClosed, sClosed,
                   s_src, s_request, s_header, s_err, s_dest_addr, s_reads,
                   lookups, dials, dest_tcp>>

\* Command::Connect: match addr.lookup(lookup).await
SResolve ==
    /\ s_pc = "Resolve"
    /\ \E answer \in ResolverAnswers :
          LET l == Lookup(s_header.address, answer) IN
          /\ lookups' = lookups + l.called
          /\ s_dest_addr' = l.addr
          /\ s_err' = IF l.ok THEN s_err ELSE SocksError("HostUnreachable")
          /\ s_pc' = IF l.ok THEN "Dial" ELSE "ResolveFailed"
    /\ UNCHANGED <<parked, codecVars, clientVars, relayVars, netVars, s_src, s_request,
                   s_header, s_result, s_writes, s_reads, dials, dest_tcp>>

\* Err(e): write(e.reply.into_response(addr.clone()), connect).await?;
\* return Err(e.into())
SWriteResolveFailure ==
    /\ s_pc = "ResolveFailed"
    /\ \E io \in IoOutcomes :
          ServerWrite(io, IntoResponse(s_err.reply, s_header.address), "Done", s_err)
    /\ UNCHANGED <<parked, codecVars, clientVars, relayVars, faulty, c2s, cClosed, sClosed,
                   s_src, s_request, s_header, s_err, s_dest_addr, s_reads,
                   lookups, dials, dest_tcp>>

\* a dial whose failure is not noticed: proxy goes on to reply Succeeded
SDialIgnoresFailure ==
    /\ s_pc = "Dial"
    /\ dials' = dials + 1
    /\ \E connected \in BOOLEAN :
          /\ dest_tcp' = IF connected THEN "connected" ELSE "failed"
          /\ s_pc' = "Dialled"
          /\ s_result' = s_result
    /\ UNCHANGED <<parked, codecVars, clientVars, relayVars, netVars, s_src, s_request,
                   s_header, s_err, s_dest_addr, s_writes, s_reads, lookups>>

\* a dial whose failure is answered with a HostUnreachable reply
SDialFailureReplies ==
    /\ s_pc = "Dial"
    /\ dials' = dials + 1
    /\ \E connected \in BOOLEAN :
          /\ dest_tcp' = IF connected THEN "connected" ELSE "failed"
          /\ s_pc' = IF connected THEN "Dialled" ELSE "ResolveFailed"
          /\ s_err' = IF connected THEN s_err ELSE SocksError("HostUnreachable")
    /\ UNCHANGED <<parked, codecVars, clientVars, relayVars, netVars, s_src, s_request,
                   s_header, s_result, s_dest_addr, s_writes, s_reads, lookups>>

\* match Async::<TcpStream>::connect(dest_addr).await
SDial ==
    /\ s_pc = "Dial"
    /\ dials' = dials + 1
    /\ \E connected \in BOOLEAN :
          /\ dest_tcp' = IF connected THEN "connected" ELSE "failed"
          /\ s_pc' = IF connected THEN "Dialled" ELSE "Done"
          /\ s_result' = IF connected THEN s_result ELSE IoError
    /\ UNCHANGED <<parked, codecVars, clientVars, relayVars, netVars, s_src, s_request,
                   s_header, s_err, s_dest_addr, s_writes, s_reads, lookups>>

\* Ok(s): reply(Replies::Succeeded, dest_addr, connect).await?
SWriteSucceeded ==
    /\ s_pc = "Dialled"
    /\ \E io \in IoOutcomes :
          ServerWrite(io, IntoResponse("Succeeded", s_dest_addr), "Relaying", s_result)
    /\ UNCHANGED <<parked, codecVars, clientVars, relayVars, faulty, c2s, cClosed, sClosed,
                   s_src, s_request, s_header, s_err, s_dest_addr, s_reads,
                   lookups, dials, dest_tcp>>

\* a proxy that starts the relay after its CommandNotSupported reply
SWriteNotSupportedThenRelays ==
    /\ s_pc = "NotSupported"
    /\ \E io \in IoOutcomes :
          ServerWrite(io, IntoResponse("CommandNotSupported", s_header.address),
                      "Relaying", s_result)
    /\ UNCHANGED <<parked, codecVars, clientVars, relayVars, faulty, c2s, cClosed, sClosed,
                   s_src, s_request, s_header, s_err, s_dest_addr, s_reads,
                   lookups, dials, dest_tcp>>

\* Bind and UdpAssociate:
\* write(Replies::CommandNotSupported.into_response(addr.clone()), connect).await
SWriteNotSupported ==
    /\ s_pc = "NotSupported"
    /\ \E io \in IoOutcomes :
          ServerWrite(io, IntoResponse("CommandNotSupported", s_header.address),
                      "Done", OkResult)
    /\ UNCHANGED <<parked, codecVars, clientVars, relayVars, faulty, c2s, cClosed, sClosed,
                   s_src, s_request, s_header, s_err, s_dest_addr, s_reads,
                   lookups, dials, dest_tcp>>

(***************************************************************************)
(* The relay: race(copy(r, &dest_tcp), copy(&dest_tcp, w)).  Each copy     *)
(* loop fills its buffer from its reader, writes the buffer to its writer, *)
(* and ends at its reader's end of stream; the race ends, with that loop's *)
(* result, as soon as one loop has ended or failed.                        *)
(***************************************************************************)
CopyLoops == {"c2d", "d2c"}

\* a relay that goes on with the other loop after one loop has finished
CopyFillAwaitsOther ==
    /\ s_pc = "Relaying"
    /\ \E d \in CopyLoops, io \in IoOutcomes :
          LET reader == IF d = "c2d" THEN c2s ELSE d2s
              closed == IF d = "c2d" THEN cClosed ELSE dClosed
          IN /\ copy_buf[d] = << >>
             /\ \E k \in 0..Len(reader) :
                   /\ (k = 0) = (Len(reader) = 0 \/ ~io)
                   /\ (io /\ k = 0) => closed
                   /\ c2s' = IF d = "c2d" THEN Drop(c2s, k) ELSE c2s
                   /\ d2s' = IF d = "d2c" THEN Drop(d2s, k) ELSE d2s
                   /\ copy_buf' = [copy_buf EXCEPT ![d] = Take(reader, 0, k)]
                   /\ s_pc' = s_pc
                   /\ s_result' = CASE ~io -> IoError
                                    [] k = 0 -> OkResult
                                    [] OTHER -> s_result
    /\ UNCHANGED <<parked, codecVars, clientVars, faulty, s2c, cClosed, sClosed, s_src,
                   s_request, s_header, s_err, s_dest_addr, s_writes, s_reads,
                   lookups, dials, dest_tcp, s2d, dClosed, sent>>

\* a copy loop whose reader gives up on an open, silent stream as if it had
\* reached its end
CopyFillTimesOut ==
    /\ s_pc = "Relaying"
    /\ \E d \in CopyLoops, io \in IoOutcomes :
          LET reader == IF d = "c2d" THEN c2s ELSE d2s
          IN /\ copy_buf[d] = << >>
             /\ \E k \in 0..Len(reader) :
                   /\ (k = 0) = (Len(reader) = 0 \/ ~io)
                   /\ c2s' = IF d = "c2d" THEN Drop(c2s, k) ELSE c2s
                   /\ d2s' = IF d = "d2c" THEN Drop(d2s, k) ELSE d2s
                   /\ copy_buf' = [copy_buf EXCEPT ![d] = Take(reader, 0, k)]
                   /\ s_pc' = IF k = 0 THEN "Done" ELSE s_pc
                   /\ s_result' = CASE ~io -> IoError
                                    [] k = 0 -> OkResult
                                    [] OTHER -> s_result
    /\ UNCHANGED <<parked, codecVars, clientVars, faulty, s2c, cClosed, sClosed, s_src,
                   s_request, s_header, s_err, s_dest_addr, s_writes, s_reads,
                   lookups, dials, dest_tcp, s2d, dClosed, sent>>

\* one turn of a copy loop at its reader: bytes are taken into the buffer,
\* or the reader is at its end and the loop, and with it the race, ends Ok,
\* or the read fails and the race ends with the I/O error
CopyFill ==
    /\ s_pc = "Relaying"
    /\ \E d \in CopyLoops, io \in IoOutcomes :
          LET reader == IF d = "c2d" THEN c2s ELSE d2s
              closed == IF d = "c2d" THEN cClosed ELSE dClosed
          IN /\ copy_buf[d] = << >>
             /\ \E k \in 0..Len(reader) :
                   /\ (k = 0) = (Len(reader) = 0 \/ ~io)
                   /\ (io /\ k = 0) => closed
                   /\ c2s' = IF d = "c2d" THEN Drop(c2s, k) ELSE c2s
                   /\ d2s' = IF d = "d2c" THEN Drop(d2s, k) ELSE d2s
                   /\ copy_buf' = [copy_buf EXCEPT ![d] = Take(reader, 0, k)]
                   /\ s_pc' = IF k = 0 THEN "Done" ELSE s_pc
                   /\ s_result' = CASE ~io -> IoError
                                    [] k = 0 -> OkResult
                                    [] OTHER -> s_result
    /\ UNCHANGED <<parked, codecVars, clientVars, faulty, s2c, cClosed, sClosed, s_src,
                   s_request, s_header, s_err, s_dest_addr, s_writes, s_reads,
                   lookups, dials, dest_tcp, s2d, dClosed, sent>>

\* a relay that ends Ok when a write of a copy loop fails
CopyWriteSwallowsError ==
    /\ s_pc = "Relaying"
    /\ \E d \in CopyLoops, io \in IoOutcomes :
          /\ copy_buf[d] # << >>
          /\ \E i \in 1..Len(copy_buf[d]) :
                LET n == IF io THEN i ELSE 0 IN
                /\ io \/ i = 1
                /\ s2d' = IF d = "c2d" THEN s2d \o Take(copy_buf[d], 0, n) ELSE s2d
                /\ s2c' = IF d = "d2c" THEN s2c \o Take(copy_buf[d], 0, n) ELSE s2c
                /\ copy_buf' = [copy_buf EXCEPT ![d] = Drop(copy_buf[d], n)]
                /\ s_pc' = IF io THEN s_pc ELSE "Done"
                /\ s_result' = IF io THEN s_result ELSE OkResult
    /\ UNCHANGED <<parked, codecVars, clientVars, faulty, c2s, cClosed, sClosed, s_src,
                   s_request, s_header, s_err, s_dest_addr, s_writes, s_reads,
                   lookups, dials, dest_tcp, d2s, dClosed, sent>>

\* a copy loop that does not consume what it has written
CopyWriteKeepsBuffer ==
    /\ s_pc = "Relaying"
    /\ \E d \in CopyLoops, io \in IoOutcomes :
          /\ copy_buf[d] # << >>
          /\ \E i \in 1..Len(copy_buf[d]) :
                LET n == IF io THEN i ELSE 0 IN
                /\ io \/ i = 1
                /\ s2d' = IF d = "c2d" THEN s2d \o Take(copy_buf[d], 0, n) ELSE s2d
                /\ s2c' = IF d = "d2c" THEN s2c \o Take(copy_buf[d], 0, n) ELSE s2c
                /\ copy_buf' = [copy_buf EXCEPT
                                   ![d] = IF n = 0 THEN @ ELSE Drop(@, n - 1)]
                /\ s_pc' = IF io THEN s_pc ELSE "Done"
                /\ s_result' = IF io THEN s_result ELSE IoError
    /\ UNCHANGED <<parked, codecVars, clientVars, faulty, c2s, cClosed, sClosed, s_src,
                   s_request, s_header, s_err, s_dest_addr, s_writes, s_reads,
                   lookups, dials, dest_tcp, d2s, dClosed, sent>>

\* one turn of a copy loop at its writer: some of the buffer is written, or
\* the write fails and the race ends with the I/O error
CopyWrite ==
    /\ s_pc = "Relaying"
    /\ \E d \in CopyLoops, io \in IoOutcomes :
          /\ copy_buf[d] # << >>
          /\ \E i \in 1..Len(copy_buf[d]) :
                LET n == IF io THEN i ELSE 0 IN
                /\ io \/ i = 1
                /\ s2d' = IF d = "c2d" THEN s2d \o Take(copy_buf[d], 0, n) ELSE s2d
                /\ s2c' = IF d = "d2c" THEN s2c \o Take(copy_buf[d], 0, n) ELSE s2c
                /\ copy_buf' = [copy_buf EXCEPT ![d] = Drop(copy_buf[d], n)]
                /\ s_pc' = IF io THEN s_pc ELSE "Done"
                /\ s_result' = IF io THEN s_result ELSE IoError
    /\ UNCHANGED <<parked, codecVars, clientVars, faulty, c2s, cClosed, sClosed, s_src,
                   s_request, s_header, s_err, s_dest_addr, s_writes, s_reads,
                   lookups, dials, dest_tcp, d2s, dClosed, sent>>

(***************************************************************************)
(* The peers of the server in SpecServer: a client that has sent any bytes *)
(* and a destination, both free to send payload and to close.              *)
(***************************************************************************)
PeerClientSend ==
    /\ s_pc = "Relaying"
    /\ ~cClosed
    /\ sent["client"] < MaxPayload
    /\ c2s' = Append(c2s, 101 + sent["client"])
    /\ sent' = [sent EXCEPT !["client"] = @ + 1]
    /\ UNCHANGED <<parked, codecVars, clientVars, serverVars, faulty, s2c, cClosed, sClosed,
                   s2d, d2s, dClosed, copy_buf>>

PeerClientClose ==
    /\ s_pc \notin {"off", "Done", "Panicked"}
    /\ ~cClosed
    /\ cClosed' = TRUE
    /\ UNCHANGED <<parked, codecVars, clientVars, serverVars, relayVars, faulty, c2s, s2c,
                   sClosed>>

PeerDestSend ==
    /\ s_pc = "Relaying"
    /\ ~dClosed
    /\ sent["dest"] < MaxPayload
    /\ d2s' = Append(d2s, 201 + sent["dest"])
    /\ sent' = [sent EXCEPT !["dest"] = @ + 1]
    /\ UNCHANGED <<parked, codecVars, clientVars, serverVars, netVars, s2d, dClosed, copy_buf>>

PeerDestClose ==
    /\ s_pc = "Relaying"
    /\ ~dClosed
    /\ dClosed' = TRUE
    /\ UNCHANGED <<parked, codecVars, clientVars, serverVars, netVars, s2d, d2s, copy_buf, sent>>

ServerNext ==
    \/ SReadAuthenticationRequest
    \/ SWriteAuthenticationResponse
    \/ SReadTcpRequestHeader
    \/ SWriteDecodeFailure
    \/ SResolve
    \/ SWriteResolveFailure
    \/ SDial
    \/ SWriteSucceeded
    \/ SWriteNotSupported
    \/ CopyFill
    \/ CopyWrite
    \/ PeerClientSend
    \/ PeerClientClose
    \/ PeerDestSend
    \/ PeerDestClose

(***************************************************************************)
(* SpecServer: proxy against a client that may send any bytes.             *)
(***************************************************************************)
MethodBytes == {0, 1, 2, 255}

\* AuthenticationRequests offering every list of 0..MaxMethods methods, and
\* malformed ones
ClientMethodOffers ==
    { <<5, Len(m)>> \o m : m \in SeqsUpTo(MethodBytes, MaxMethods) }
        \cup { <<5, 1, 9>>, <<5, 2, 0, 9>>, <<4, 1, 0>>, <<5, 2, 0>> }

RequestAddresses ==
    { SocketV4(<<1, 2, 3, 4>>, 258), SocketV6([i \in 1..16 |-> i], 443),
      DomainName(<<97, 98>>, 80), DomainName(<< >>, 0) }

\* TcpRequestHeaders, well-formed or not
ClientRequests ==
    { <<5, cmd, rsv>> \o AddressEncode(a) :
        cmd \in {1, 2, 3}, rsv \in {0, 7}, a \in RequestAddresses }
      \cup { <<4, 1, 0>> \o AddressEncode(DomainName(<<97>>, 80)),
             <<5, 9, 0>> \o AddressEncode(DomainName(<<97>>, 80)),
             <<5, 0, 0>> \o AddressEncode(DomainName(<<97>>, 80)),
             <<5, 1, 0, 2, 0, 0>>, <<5, 2, 0, 0>>, <<5, 1, 0, 3, 2, 97>>, << >> }

\* payload a client sends right behind its request, before any reply
PipelinedPayload == <<100>>

ClientScripts ==
    { x \o y : x \in ClientMethodOffers, y \in { <<5, 2, 0>> \o AddressEncode(DomainName(<<97, 98>>, 80)), << >> } }
      \cup { <<5, 1, 0>> \o y : y \in ClientRequests }
      \cup { <<5, 1, 2>> \o y : y \in ClientRequests }
      \cup { <<5, 1, 0, 5, 1, 0>> \o AddressEncode(DomainName(<<97, 98>>, 80))
                \o PipelinedPayload }

ServerStart ==
    /\ s_pc = "Start"
    /\ s_src = SocketV4(<<192, 168, 0, 9>>, 4660)
    /\ s_request = NoVal
    /\ s_header = NoVal
    /\ s_err = NoResult
    /\ s_dest_addr = NoVal
    /\ s_result = NoResult
    /\ s_writes = << >>
    /\ s_reads = << >>
    /\ lookups = 0
    /\ dials = 0
    /\ dest_tcp = "none"
    /\ RelayIdle

ServerInit ==
    /\ CodecOff
    /\ parked = NoVal
    /\ ClientOff
    /\ ServerStart
    /\ faulty \in BOOLEAN
    /\ c2s \in ClientScripts
    /\ s2c = << >>
    /\ cClosed = FALSE
    /\ sClosed = FALSE

SpecServer == ServerInit /\ [][ServerNext]_vars

(***************************************************************************)
(* Claims about the server handshake, checked under SpecServer.            *)
(***************************************************************************)
\* the method bytes of the AuthenticationRequest the server read
OfferedOnWire == Drop(s_reads[1].bytes, 2)

\* C5: for every AuthenticationRequest read successfully the server answers
\* 05 00 (NONE) if and only if one of the offered method bytes is 0x00, and
\* 05 FF (NotAcceptable) otherwise, the empty offer included; PASSWORD and
\* GSSAPI are never answered.
C5_MethodAnswer ==
    /\ (Len(s_reads) >= 1 /\ s_reads[1].out.st = "ok" /\ s_pc = "AuthNegotiated")
         => Len(s_writes) = 1
    /\ Len(s_writes) >= 1
         => /\ s_reads[1].out.st = "ok"
            /\ s_writes[1].msg = "AuthenticationResponse"
            /\ s_writes[1].bytes
                 = <<5, IF \E i \in 1..Len(OfferedOnWire) : OfferedOnWire[i] = 0
                        THEN 0 ELSE 255>>
            /\ SubSeq(s2c, 1, 2) = s_writes[1].bytes
    /\ \A i \in 1..Len(s_writes) :
          s_writes[i].msg = "AuthenticationResponse"
              => i = 1 /\ s_writes[i].bytes[2] \notin {1, 2}

C5_Witness ==
    /\ Len(s_writes) >= 1
    /\ s_reads[1].bytes = <<5, 2, 2, 0>>
    /\ s_writes[1].bytes = <<5, 0>>

\* the empty offer is answered NotAcceptable
C5_EmptyOfferReached ==
    /\ Len(s_writes) >= 1
    /\ s_reads[1].bytes = <<5, 0>>
    /\ s_writes[1].bytes = <<5, 255>>

\* the server's second read consumed the well-formed TcpRequestHeader with
\* command byte cmd and address a
RequestOnWire(cmd, a) ==
    /\ Len(s_reads) >= 2
    /\ s_reads[2].op = "TcpRequestHeader"
    /\ \E rsv \in {0, 7} : s_reads[2].bytes = <<5, cmd, rsv>> \o AddressEncode(a)

\* C6: a well-formed TcpRequestHeader with command Bind or UdpAssociate is
\* answered with exactly one TcpResponseHeader, CommandNotSupported with the
\* request's own address, and the connection never sees a resolver call, a
\* dial or a relay.
C6_BindNotSupported ==
    \A cmd \in {2, 3}, a \in RequestAddresses :
       RequestOnWire(cmd, a)
          => /\ lookups = 0
             /\ dials = 0
             /\ s_pc \in {"NotSupported", "Done"}
             /\ CountWrites(s_writes, "TcpResponseHeader")
                  = (IF s_pc = "Done" /\ s_result # IoError THEN 1 ELSE 0)
             /\ Len(s_writes) >= 2
                  => s_writes[2].bytes = <<5, 7, 0>> \o AddressEncode(a)

\* the server's read of the TcpRequestHeader has failed
HeaderReadFailed ==
    /\ Len(s_reads) >= 2
    /\ s_reads[2].op = "TcpRequestHeader"
    /\ s_reads[2].out.st \in {"err", "eof"}

\* the reply byte the failure of the read calls for, from the bytes the read
\* consumed: an I/O failure, a bad version, an unknown command, an unknown
\* address tag
FailureReplyByte(read) ==
    CASE read.out.st = "eof" \/ read.bytes = << >> -> 1
      [] read.bytes[1] # 5 -> 5
      [] Len(read.bytes) = 2 /\ read.bytes[2] \notin {1, 2, 3} -> 1
      [] Len(read.bytes) = 4 /\ read.bytes[4] \notin {1, 3, 4} -> 8

\* nothing of the Connect path has happened: no resolver call, no dial, no
\* byte copied in either direction
NeverConnects ==
    /\ lookups = 0
    /\ dials = 0
    /\ s_dest_addr = NoVal
    /\ s2d = << >>
    /\ copy_buf = [d \in CopyLoops |-> << >>]

\* C14: when the read of the TcpRequestHeader fails with error e (bad
\* version, unknown command, unknown address tag, I/O failure) the server
\* writes one TcpResponseHeader with reply e.reply and the inbound peer
\* address src, then returns e (the I/O error if that write fails), and it
\* never resolves, dials or relays.
C14_DecodeFailureReply ==
    HeaderReadFailed
        => LET e == SocksError(s_reads[2].out.reply)
               resp == <<5, FailureReplyByte(s_reads[2]), 0>> \o AddressEncode(s_src)
           IN /\ RepliesAsU8(e.reply) = FailureReplyByte(s_reads[2])
              /\ NeverConnects
              /\ s_pc \in {"DecodeFailed", "Done"}
              /\ s_pc = "DecodeFailed" => (Len(s_writes) = 1 /\ s_result = NoResult)
              /\ s_pc = "Done"
                    => \/ /\ s_result = e
                          /\ Len(s_writes) = 2
                          /\ s_writes[2] = Written("TcpResponseHeader", resp)
                          /\ s2c = s_writes[1].bytes \o resp
                       \/ /\ s_result = IoError
                          /\ Len(s_writes) = 1
                          /\ s2c = s_writes[1].bytes

C14_Witness ==
    /\ HeaderReadFailed
    /\ s_reads[2].bytes = <<5, 1, 0, 2>>
    /\ s_pc = "Done"
    /\ s_result = SocksError("AddressTypeNotSupported")
    /\ s_writes[2].bytes = <<5, 8, 0, 1, 192, 168, 0, 9, 18, 52>>

\* the other failures of C14 are reached as well
C14_BadVersionReached ==
    /\ HeaderReadFailed
    /\ s_reads[2].bytes = <<4>>
    /\ s_result = SocksError("ConnectionRefused")
    /\ s_writes[2].bytes[2] = 5

C14_UnknownCommandReached ==
    /\ HeaderReadFailed
    /\ s_reads[2].bytes = <<5, 9>>
    /\ s_result = SocksError("GeneralFailure")
    /\ Len(s_writes) = 2

C14_IoFailureReached ==
    /\ HeaderReadFailed
    /\ s_reads[2].out.st = "eof"
    /\ s_result = SocksError("GeneralFailure")
    /\ Len(s_writes) = 2

\* proxy is about to send a failure reply built from the error s_err
SendingFailureReply == s_pc \in {"DecodeFailed", "ResolveFailed"}

\* C15: on both paths that send a failure reply before propagating (decode
\* failure of the request header, resolution failure), if the write or flush
\* of that reply fails, proxy returns the I/O error of the write and not the
\* decode or resolution error; if it succeeds proxy returns that error.
C15_WriteFailureSupersedes ==
    [][ (SendingFailureReply /\ s_pc' # s_pc)
          => /\ s_pc' = "Done"
             /\ s_err.kind = "Socks"
             /\ s_writes' = s_writes
                  => (s_result' = IoError /\ s_result' # s_err)
             /\ s_writes' # s_writes
                  => (s_result' = s_err /\ Len(s_writes') = Len(s_writes) + 1) ]_vars

C15_Witness ==
    /\ s_pc = "Done"
    /\ s_err = SocksError("HostUnreachable")
    /\ s_result = IoError
    /\ Len(s_writes) = 1
    /\ lookups = 1

\* the write of the decode-failure reply fails as well
C15_DecodeFailureReached ==
    /\ s_pc = "Done"
    /\ HeaderReadFailed
    /\ s_err = SocksError("ConnectionRefused")
    /\ s_result = IoError
    /\ Len(s_writes) = 1

\* the resolver was called and gave no address
ResolutionFailed == lookups = 1 /\ s_dest_addr = NoVal

\* the addresses of the requests of SpecServer, by variant
RequestDomains == { a \in RequestAddresses : ~IsSocket(a) }

RequestSockets == { a \in RequestAddresses : IsSocket(a) }

\* C16: for a Connect request with a DomainName address, if the resolver
\* fails the server writes one TcpResponseHeader with reply HostUnreachable
\* carrying the unresolved domain-name address, returns an error with reply
\* HostUnreachable (the I/O error if that write fails) and never dials; for
\* a literal socket address the resolver is never called and resolution
\* cannot fail.
C16_ResolverFailure ==
    /\ lookups \in {0, 1}
    /\ \A a \in RequestDomains :
          (RequestOnWire(1, a) /\ s_pc # "Resolve") => lookups = 1
    /\ lookups = 1
          => \E a \in RequestDomains : RequestOnWire(1, a) /\ s_header.address = a
    /\ ResolutionFailed
          => LET resp == <<5, 4, 0>> \o Drop(s_reads[2].bytes, 3) IN
             /\ dials = 0
             /\ s2d = << >>
             /\ s_pc \in {"ResolveFailed", "Done"}
             /\ s_pc = "ResolveFailed" => Len(s_writes) = 1
             /\ s_pc = "Done"
                   => \/ /\ s_result = SocksError("HostUnreachable")
                         /\ Len(s_writes) = 2
                         /\ s_writes[2] = Written("TcpResponseHeader", resp)
                         /\ s2c = s_writes[1].bytes \o resp
                      \/ /\ s_result = IoError
                         /\ Len(s_writes) = 1
    /\ \A a \in RequestSockets :
          RequestOnWire(1, a)
              => /\ lookups = 0
                 /\ s_pc # "ResolveFailed"
                 /\ s_err # SocksError("HostUnreachable")
    /\ \A a \in SocketAddrs, answer \in ResolverAnswers :
          Lookup(a, answer) = [ok |-> TRUE, addr |-> a, called |-> 0]

C16_Witness ==
    /\ ResolutionFailed
    /\ RequestOnWire(1, DomainName(<<97, 98>>, 80))
    /\ s_pc = "Done"
    /\ s_result = SocksError("HostUnreachable")
    /\ s_writes[2].bytes = <<5, 4, 0, 3, 2, 97, 98, 0, 80>>

\* the i-th write of the server is a TcpResponseHeader with reply Succeeded
IsSucceededReply(i) ==
    s_writes[i].msg = "TcpResponseHeader" /\ s_writes[i].bytes[2] = 0

\* the relay has started: proxy is in it, or a copy loop has moved a byte
RelayStarted ==
    \/ s_pc = "Relaying"
    \/ s2d # << >>
    \/ copy_buf # [d \in CopyLoops |-> << >>]
    \/ sent # [side \in {"client", "dest"} |-> 0]

\* the bytes of the replies the server wrote during the handshake
HandshakeReplies == s_writes[1].bytes \o s_writes[2].bytes

\* C17: on a Connect request the server writes TcpResponseHeader{Succeeded,
\* resolved address} only after the dial of the resolved address has
\* succeeded, and it has written and flushed that reply before the relay
\* copies any byte in either direction; a Succeeded reply is written on no
\* other path.
C17_SucceededAfterDial ==
    /\ \A i \in 1..Len(s_writes) :
          IsSucceededReply(i)
              => /\ i = 2
                 /\ dest_tcp = "connected"
                 /\ dials = 1
                 /\ s_header.command = "Connect"
                 /\ IsSocket(s_dest_addr)
                 /\ s_dest_addr.port = s_header.address.port
                 /\ s_writes[i].bytes = <<5, 0, 0>> \o AddressEncode(s_dest_addr)
    /\ s_pc = "Dialled" => (Len(s_writes) = 1 /\ ~RelayStarted)
    /\ RelayStarted
          => /\ Len(s_writes) = 2
             /\ IsSucceededReply(2)
             /\ SubSeq(s2c, 1, Len(HandshakeReplies)) = HandshakeReplies

C17_Witness ==
    /\ RelayStarted
    /\ s2d = <<101>>
    /\ Len(s2c) > Len(HandshakeReplies)
    /\ s_writes[2].bytes = <<5, 0, 0, 1, 10, 0, 0, 7, 0, 80>>

\* C18: when the dial of the resolved destination fails the server returns
\* the I/O error and writes no TcpResponseHeader at all: the bytes written
\* to the client in that connection are exactly the two-byte method
\* response.
C18_DialFailureNoReply ==
    dest_tcp = "failed"
        => /\ s_pc = "Done"
           /\ s_result = IoError
           /\ dials = 1
           /\ CountWrites(s_writes, "TcpResponseHeader") = 0
           /\ Len(s_writes) = 1
           /\ s_writes[1].msg = "AuthenticationResponse"
           /\ s2c \in { <<5, 0>>, <<5, 255>> }
           /\ s2c = s_writes[1].bytes
           /\ ~RelayStarted

C18_Witness ==
    /\ dest_tcp = "failed"
    /\ s_dest_addr.kind = "V6"
    /\ s_result = IoError
    /\ s2c = <<5, 0>>

(***************************************************************************)
(* Claims about the relay, checked under SpecServer.                       *)
(***************************************************************************)
\* the relay call has returned
RelayReturned == s_pc = "Done" /\ Len(s_writes) = 2 /\ IsSucceededReply(2)

\* no copy loop reads or writes in this step: what the server has written
\* and what it holds is as before, and the streams it reads only grow
NoCopyStep ==
    /\ s2d' = s2d
    /\ s2c' = s2c
    /\ copy_buf' = copy_buf
    /\ Len(c2s') >= Len(c2s) /\ SubSeq(c2s', 1, Len(c2s)) = c2s
    /\ Len(d2s') >= Len(d2s) /\ SubSeq(d2s', 1, Len(d2s)) = d2s

\* C12: as soon as either copy loop finishes, with EOF or an error, the
\* relay call returns and the other loop makes no further read or write;
\* the relay does not wait for the other direction to drain, so bytes still
\* unread in the other direction may never be delivered.
C12_RelayRace ==
    /\ [](s_pc = "Relaying" => s_result = NoResult)
    /\ []((RelayStarted /\ s_result # NoResult) => RelayReturned)
    /\ [][ (RelayStarted /\ s_result # NoResult) => NoCopyStep ]_vars

\* the client's end of stream has ended the relay while bytes of the
\* destination were still unread: they are never delivered
C12_Witness ==
    /\ RelayReturned
    /\ s_result = OkResult
    /\ cClosed /\ ~dClosed
    /\ d2s = <<201, 202>>
    /\ copy_buf["d2c"] = << >>
    /\ Len(s2c) = Len(HandshakeReplies)

\* bytes a loop had read and not yet written are dropped with the loop
C12_BufferDroppedReached ==
    /\ RelayReturned
    /\ s_result = OkResult
    /\ copy_buf["d2c"] # << >>

\* copy loop d is at the end of its reader with nothing left to write
LoopAtEof(d) ==
    /\ copy_buf[d] = << >>
    /\ IF d = "c2d" THEN c2s = << >> /\ cClosed ELSE d2s = << >> /\ dClosed

\* C19: the relay's result is the result of whichever copy loop finishes
\* first: Ok if that loop ended on clean EOF, the I/O error if that loop
\* failed; an error in the loop that did not finish first is never
\* reported.
C19_RelayResult ==
    /\ [][ (s_pc = "Relaying" /\ s_pc' # s_pc)
            => /\ s_pc' = "Done"
               /\ s_result' \in {OkResult, IoError}
               /\ s_result' = OkResult
                    => /\ \E d \in CopyLoops : LoopAtEof(d)
                       /\ <<s2d, s2c, copy_buf, c2s, d2s>>' = <<s2d, s2c, copy_buf, c2s, d2s>>
               /\ s_result' = IoError => faulty ]_vars
    /\ [][ s_pc = "Done" => s_result' = s_result ]_vars
    /\ []((RelayReturned /\ ~faulty) => s_result = OkResult)

C19_Witness ==
    /\ RelayReturned
    /\ s_result = IoError
    /\ copy_buf["c2d"] = <<101>>
    /\ ~cClosed /\ ~dClosed

\* the clean end of the relay is reached as well
C19_OkReached ==
    /\ RelayReturned
    /\ s_result = OkResult
    /\ dClosed /\ ~cClosed
    /\ s2d = <<100>>

\* the payload bytes each side has sent during the relay, in order
ClientPayload == [i \in 1..sent["client"] |-> 100 + i]

DestPayload == [i \in 1..sent["dest"] |-> 200 + i]

IsPrefix(p, q) == Len(p) <= Len(q) /\ SubSeq(q, 1, Len(p)) = p

\* what the server has written to the client after the handshake replies
RelayedToClient == Drop(s2c, Len(HandshakeReplies))

\* C20: at every point of the relay the bytes written to the destination
\* are a prefix of the bytes read from the client, and the bytes written to
\* the client after the handshake replies are a prefix of the bytes read
\* from the destination: every byte the client sent behind its request is
\* written to the destination, held by the loop or still unread, in order
\* and once, and likewise from the destination to the client.
C20_RelayPrefix ==
    RelayStarted
        => /\ \E pre \in { << >>, PipelinedPayload } :
                 LET stream == pre \o ClientPayload IN
                 /\ IsPrefix(s2d, stream)
                 /\ IsPrefix(s2d \o copy_buf["c2d"], stream)
                 /\ s2d \o copy_buf["c2d"] \o c2s = stream
           /\ IsPrefix(RelayedToClient, DestPayload)
           /\ IsPrefix(RelayedToClient \o copy_buf["d2c"], DestPayload)
           /\ RelayedToClient \o copy_buf["d2c"] \o d2s = DestPayload
           /\ SubSeq(s2c, 1, Len(HandshakeReplies)) = HandshakeReplies

C20_Witness ==
    /\ RelayStarted
    /\ s2d = <<100, 101>>
    /\ copy_buf["c2d"] = <<102>>
    /\ RelayedToClient = <<201>>
    /\ copy_buf["d2c"] = << >>
    /\ d2s = <<202>>

(***************************************************************************)
(* SpecEndToEnd: client::connect against server::proxy over a transport    *)
(* that does not fail.  The caller of connect drops the stream once        *)
(* connect has failed or panicked; the caller of proxy drops the           *)
(* connection once proxy has returned or panicked.                         *)
(***************************************************************************)
ClientDrop ==
    /\ c_pc \in {"Failed", "Panicked"}
    /\ ~cClosed
    /\ cClosed' = TRUE
    /\ UNCHANGED <<parked, codecVars, clientVars, serverVars, relayVars, faulty, c2s, s2c,
                   sClosed>>

ServerDrop ==
    /\ s_pc \in {"Done", "Panicked"}
    /\ ~sClosed
    /\ sClosed' = TRUE
    /\ UNCHANGED <<parked, codecVars, clientVars, serverVars, relayVars, faulty, c2s, s2c,
                   cClosed>>

EndToEndDests ==
    RequestAddresses
        \cup { DomainName(h, 65535) : h \in SampleNames }
        \cup { SocketV4(<<127, 0, 0, 1>>, 0) }

EndToEndInit ==
    /\ CodecOff
    /\ parked = NoVal
    /\ ClientStart(EndToEndDests)
    /\ ServerStart
    /\ faulty = FALSE
    /\ c2s = << >>
    /\ s2c = << >>
    /\ cClosed = FALSE
    /\ sClosed = FALSE

EndToEndNext ==
    \/ CWriteAuthenticationRequest
    \/ CReadAuthenticationResponse
    \/ CWriteTcpRequestHeader
    \/ CReadTcpResponseHeader
    \/ ClientDrop
    \/ SReadAuthenticationRequest
    \/ SWriteAuthenticationResponse
    \/ SReadTcpRequestHeader
    \/ SWriteDecodeFailure
    \/ SResolve
    \/ SWriteResolveFailure
    \/ SDial
    \/ SWriteSucceeded
    \/ CopyFill
    \/ ServerDrop

SpecEndToEnd == EndToEndInit /\ [][EndToEndNext]_vars

\* the dial of the destination has succeeded
DialSucceeded == dials = 1 /\ s_pc \in {"Dialled", "Relaying"}

\* connect has returned or panicked
ClientEnded == c_pc \in {"Connected", "Failed", "Panicked"}

\* C2: when connect (no credentials, a literal or a resolvable destination)
\* runs against proxy and the dial succeeds, the handshake ends Connected,
\* connect returning Ok (and the payload the client then sends is echoed
\* back unmodified: the client sends payload only once it is Connected).
C2_EndToEndConnected ==
    (c_auth_info = NoVal /\ DialSucceeded /\ ClientEnded)
        => c_pc = "Connected" /\ c_result = OkResult

(***************************************************************************)
(* SpecTwoConnections: two connections, each served by its own call of     *)
(* proxy, the two tasks polled in any interleaving.  The variables of the  *)
(* server and of its streams hold the connection of the task being polled, *)
(* parked holds the connection of the other task.                          *)
(***************************************************************************)
\* payload bytes each destination may send
PairPayload == 1

\* all that belongs to one call of proxy: the stream connect and the
\* destination stream it owns, its argument src and its locals; buf is the
\* buffers of its two copy loops
TaskWith(buf) ==
    [c2s |-> c2s, s2c |-> s2c, cClosed |-> cClosed, sClosed |-> sClosed,
     s_pc |-> s_pc, s_src |-> s_src, s_request |-> s_request,
     s_header |-> s_header, s_err |-> s_err, s_dest_addr |-> s_dest_addr,
     s_result |-> s_result, s_writes |-> s_writes, s_reads |-> s_reads,
     lookups |-> lookups, dials |-> dials, dest_tcp |-> dest_tcp,
     s2d |-> s2d, d2s |-> d2s, dClosed |-> dClosed, copy_buf |-> buf,
     sent |-> sent]

\* a task whose copy buffers are not its own: it is suspended with the
\* buffers of the other task
TaskSharingBuffer == TaskWith(parked.copy_buf)

\* the task being polled, as it is suspended
Task == TaskWith(copy_buf)

\* the executor leaves the task it was polling and polls the other one
Switch ==
    /\ parked' = Task
    /\ c2s' = parked.c2s
    /\ s2c' = parked.s2c
    /\ cClosed' = parked.cClosed
    /\ sClosed' = parked.sClosed
    /\ s_pc' = parked.s_pc
    /\ s_src' = parked.s_src
    /\ s_request' = parked.s_request
    /\ s_header' = parked.s_header
    /\ s_err' = parked.s_err
    /\ s_dest_addr' = parked.s_dest_addr
    /\ s_result' = parked.s_result
    /\ s_writes' = parked.s_writes
    /\ s_reads' = parked.s_reads
    /\ lookups' = parked.lookups
    /\ dials' = parked.dials
    /\ dest_tcp' = parked.dest_tcp
    /\ s2d' = parked.s2d
    /\ d2s' = parked.d2s
    /\ dClosed' = parked.dClosed
    /\ copy_buf' = parked.copy_buf
    /\ sent' = parked.sent
    /\ UNCHANGED <<codecVars, clientVars, faulty>>

\* what tells the two connections apart: peer address, offer, destination,
\* payload sent behind the request, malformed request
PairSrc == << SocketV4(<<192, 168, 0, 9>>, 4660), SocketV4(<<192, 168, 0, 10>>, 4661) >>

PairOffer == << <<5, 1, 0>>, <<5, 1, 2>> >>

PairDomain == << DomainName(<<97, 98>>, 80), DomainName(<<99, 100>>, 443) >>

PairPipelined == << PipelinedPayload, <<110>> >>

PairBadRequest ==
    << <<4, 1, 0>> \o AddressEncode(PairDomain[1]), <<5, 1, 0, 2, 0, 0>> >>

\* what client i sends: its offer, then a Connect request with payload
\* behind it, or a malformed request
PairScripts(i) ==
    { PairOffer[i] \o <<5, 1, 0>> \o AddressEncode(PairDomain[i]) \o PairPipelined[i],
      PairOffer[i] \o PairBadRequest[i] }

\* the connection whose task is being polled
PolledId == CHOOSE i \in {1, 2} : s_src = PairSrc[i]

\* the k-th payload byte of destination i
PairDestByte(i, k) == 200 + 10 * (i - 1) + k

PairDestSend ==
    /\ s_pc = "Relaying"
    /\ ~dClosed
    /\ sent["dest"] < PairPayload
    /\ d2s' = Append(d2s, PairDestByte(PolledId, sent["dest"] + 1))
    /\ sent' = [sent EXCEPT !["dest"] = @ + 1]
    /\ UNCHANGED <<parked, codecVars, clientVars, serverVars, netVars, s2d, dClosed,
                   copy_buf>>

\* connection i as proxy is called on it, the client having sent script
PairStart(i, script) ==
    [c2s |-> script, s2c |-> << >>, cClosed |-> FALSE, sClosed |-> FALSE,
     s_pc |-> "Start", s_src |-> PairSrc[i], s_request |-> NoVal,
     s_header |-> NoVal, s_err |-> NoResult, s_dest_addr |-> NoVal,
     s_result |-> NoResult, s_writes |-> << >>, s_reads |-> << >>,
     lookups |-> 0, dials |-> 0, dest_tcp |-> "none", s2d |-> << >>,
     d2s |-> << >>, dClosed |-> FALSE,
     copy_buf |-> [d \in CopyLoops |-> << >>],
     sent |-> [side \in {"client", "dest"} |-> 0]]

TwoConnectionsInit ==
    /\ CodecOff
    /\ ClientOff
    /\ ServerStart
    /\ faulty = FALSE
    /\ c2s \in PairScripts(1)
    /\ s2c = << >>
    /\ cClosed = FALSE
    /\ sClosed = FALSE
    /\ parked \in { PairStart(2, script) : script \in PairScripts(2) }

TwoConnectionsNext ==
    \/ SReadAuthenticationRequest
    \/ SWriteAuthenticationResponse
    \/ SReadTcpRequestHeader
    \/ SWriteDecodeFailure
    \/ SResolve
    \/ SWriteResolveFailure
    \/ SDial
    \/ SWriteSucceeded
    \/ CopyFill
    \/ CopyWrite
    \/ PeerClientClose
    \/ PairDestSend
    \/ PeerDestClose
    \/ Switch

SpecTwoConnections == TwoConnectionsInit /\ [][TwoConnectionsNext]_vars

\* the bytes of a log of reads or writes, in order
RECURSIVE LogBytes(_)
LogBytes(log) ==
    IF log = << >> THEN << >> ELSE log[1].bytes \o LogBytes(Tail(log))

\* the answer to the offer of client i, and the reply byte its malformed
\* request calls for
PairMethodAnswer == << <<5, 0>>, <<5, 255>> >>

PairBadReply == << "ConnectionRefused", "AddressTypeNotSupported" >>

\* the TcpResponseHeaders connection i can be sent when it is served alone
PairReplies(i) ==
    { <<5, RepliesAsU8(PairBadReply[i]), 0>> \o AddressEncode(PairSrc[i]),
      <<5, 4, 0>> \o AddressEncode(PairDomain[i]) }
      \cup { <<5, 0, 0>> \o AddressEncode([kind |-> a.kind, host |-> a.host,
                                           port |-> PairDomain[i].port]) :
               a \in { x \in ResolverAnswers : x.ok } }

\* connection t is what connection i is when it is served alone: all the
\* server has read, relayed or left unread is what client i sent, the
\* replies are those of request i, the payload relayed to client i is that
\* of destination i, and the result is that of request i
ConnIsolated(t, i) ==
    LET replies == LogBytes(t.s_writes)
        relayed == Drop(t.s2c, Len(replies))
        failed == Len(t.s_reads) = 2 /\ t.s_reads[2].out.st = "err"
    IN /\ t.s_src = PairSrc[i]
       /\ LogBytes(t.s_reads) \o t.s2d \o t.copy_buf["c2d"] \o t.c2s \in PairScripts(i)
       /\ IsPrefix(replies, t.s2c)
       /\ relayed \o t.copy_buf["d2c"] \o t.d2s
            = [k \in 1..t.sent["dest"] |-> PairDestByte(i, k)]
       /\ Len(t.s_writes) >= 1 => t.s_writes[1].bytes = PairMethodAnswer[i]
       /\ Len(t.s_writes) >= 2
            => /\ Len(t.s_writes) = 2
               /\ t.s_writes[2].bytes \in PairReplies(i)
               /\ (t.s_writes[2].bytes[2] = RepliesAsU8(PairBadReply[i])) = failed
       /\ (failed /\ t.s_pc = "Done")
            => (t.s_result = SocksError(PairBadReply[i]) /\ Len(t.s_writes) = 2)
       /\ t.s_result
            \in { NoResult, OkResult, IoError, SocksError("HostUnreachable"),
                  SocksError(PairBadReply[i]) }
       /\ t.s_header # NoVal => t.s_header.address = PairDomain[i]
       /\ t.s_dest_addr # NoVal => t.s_dest_addr.port = PairDomain[i].port

\* C11: with two connections served concurrently by two proxy tasks in any
\* interleaving, every byte delivered to client i (handshake replies and
\* relayed payload) is produced from connection i's own request and
\* destination i's stream only, and the handshake outcome of connection i
\* is that of its own request, as when it runs alone.
C11_TwoConnections ==
    /\ ConnIsolated(TaskWith(copy_buf), PolledId)
    /\ ConnIsolated(parked, 3 - PolledId)

\* both connections have relayed their own payload in both directions
C11_Witness ==
    /\ PolledId = 1
    /\ s2d = PairPipelined[1]
    /\ Drop(s2c, 12) = <<201>>
    /\ parked.s2d = PairPipelined[2]
    /\ Drop(parked.s2c, 12) = <<211>>
    /\ parked.s_writes[1].bytes = <<5, 255>>

\* one connection fails in its handshake while the other one relays
C11_MixedReached ==
    /\ PolledId = 2
    /\ s_result = SocksError("AddressTypeNotSupported")
    /\ parked.s_pc = "Relaying"
    /\ parked.s2d = PairPipelined[1]

(***************************************************************************)
(* SpecRelayFair: proxy serving a Connect request up to and through the    *)
(* relay, under fair scheduling: a copy loop that can take a turn at its   *)
(* reader or at its writer eventually takes one.  The peers are free to    *)
(* send, to close, or to do neither.                                       *)
(***************************************************************************)
RelayScripts ==
    { <<5, 1, 0, 5, 1, 0>> \o AddressEncode(DomainName(<<97, 98>>, 80)) \o payload :
        payload \in { << >>, PipelinedPayload } }

RelayFairInit ==
    /\ parked = NoVal
    /\ CodecOff
    /\ ClientOff
    /\ ServerStart
    /\ faulty \in BOOLEAN
    /\ c2s \in RelayScripts
    /\ s2c = << >>
    /\ cClosed = FALSE
    /\ sClosed = FALSE

RelayFairNext ==
    \/ SReadAuthenticationRequest
    \/ SWriteAuthenticationResponse
    \/ SReadTcpRequestHeader
    \/ SWriteDecodeFailure
    \/ SResolve
    \/ SWriteResolveFailure
    \/ SDial
    \/ SWriteSucceeded
    \/ CopyFill
    \/ CopyWrite
    \/ PeerClientSend
    \/ PeerClientClose
    \/ PeerDestSend
    \/ PeerDestClose

SpecRelayFair ==
    /\ RelayFairInit
    /\ [][RelayFairNext]_vars
    /\ WF_vars(CopyFill)
    /\ WF_vars(CopyWrite)

\* the relay is running and one side has reached its end of stream
SideClosedInRelay == s_pc = "Relaying" /\ (cClosed \/ dClosed)

\* C21: under fair scheduling, once the relay has started and the client or
\* the destination reaches EOF, the relay, and so proxy, eventually
\* returns; if neither side ever closes or fails the relay never returns on
\* its own: there is no timeout.
C21_RelayTermination ==
    /\ SideClosedInRelay ~> s_pc = "Done"
    /\ []((RelayReturned /\ ~faulty) => (cClosed \/ dClosed))
    /\ [][ (s_pc = "Relaying" /\ s_pc' = "Done")
             => (faulty \/ cClosed \/ dClosed) ]_vars

\* the relay has returned Ok after both sides have closed
C21_Witness ==
    /\ RelayReturned
    /\ ~faulty
    /\ s_result = OkResult
    /\ cClosed /\ dClosed
    /\ sent = [side \in {"client", "dest"} |-> MaxPayload]

\* with both sides open and silent the relay stays as it is: no step of the
\* server is possible
C21_IdleForeverReached ==
    /\ s_pc = "Relaying"
    /\ ~faulty
    /\ ~cClosed /\ ~dClosed
    /\ sent = [side \in {"client", "dest"} |-> MaxPayload]
    /\ c2s = << >> /\ d2s = << >>
    /\ copy_buf = [d \in CopyLoops |-> << >>]
    /\ ~ENABLED CopyFill
    /\ ~ENABLED CopyWrite

(***************************************************************************)
(* Further claims about the client handshake, checked under SpecClient.    *)
(***************************************************************************)
\* the bytes of the writes of a log, in order
RECURSIVE WrittenBytes(_)
WrittenBytes(log) ==
    IF log = << >> THEN << >>
    ELSE WrittenBytes(SubSeq(log, 1, Len(log) - 1)) \o log[Len(log)].bytes

\* the position of the first write of kind in log, 0 when there is none
FirstWrite(log, kind) ==
    IF CountWrites(log, kind) = 0 THEN 0
    ELSE CHOOSE i \in 1..Len(log) :
            /\ log[i].msg = kind
            /\ \A j \in 1..(i - 1) : log[j].msg # kind

\* C22: the client handshake is strictly sequential: writes and reads
\* alternate, starting with a write; every write is on the wire in full
\* (written and flushed) before the next read; the TcpRequestHeader is
\* written only after the AuthenticationResponse has been read and, when
\* PASSWORD was selected, only after a sub-negotiation response with result
\* 0 has been read; one step of connect is one transport operation.
C22_Sequential ==
    /\ [](/\ Len(c_writes) - Len(c_reads) \in {0, 1}
          /\ c2s = WrittenBytes(c_writes)
          /\ c_pc \in {"MethodSent", "SubNegotiationSent", "RequestSent"}
                => Len(c_writes) = Len(c_reads) + 1
          /\ c_pc \in {"Start", "SubNegotiating", "Authenticated", "Connected"}
                => Len(c_writes) = Len(c_reads)
          /\ CountWrites(c_writes, "TcpRequestHeader") > 0
                => /\ Len(c_reads) >= FirstWrite(c_writes, "TcpRequestHeader") - 1
                   /\ c_reads[1].op = "AuthenticationResponse"
                   /\ c_reads[1].out.st = "ok"
                   /\ c_reads[1].out.val.method \in {"NONE", "PASSWORD"}
                   /\ Selected("NONE")
                         => FirstWrite(c_writes, "TcpRequestHeader") = 2
                   /\ Selected("PASSWORD")
                         => /\ FirstWrite(c_writes, "TcpRequestHeader") = 3
                            /\ c_writes[2].msg = "SubNegotiationAuthenticationRequest"
                            /\ SubNegotiationRead
                            /\ c_reads[2].out.val.result = 0)
    /\ [][ /\ Len(c_writes') + Len(c_reads') <= Len(c_writes) + Len(c_reads) + 1
           /\ Len(c_reads') > Len(c_reads)
                 => (Len(c_writes) = Len(c_reads) + 1 /\ c_writes' = c_writes)
           /\ Len(c_writes') > Len(c_writes)
                 => (Len(c_writes) = Len(c_reads) /\ c_reads' = c_reads) ]_vars

\* the request has been written after a successful sub-negotiation
C22_Witness ==
    /\ Selected("PASSWORD")
    /\ SubNegotiationRead
    /\ c_reads[2].out.val.result = 0
    /\ Len(c_writes) = 3
    /\ c_writes[3].msg = "TcpRequestHeader"
    /\ Len(c_reads) = 3
    /\ c_pc = "Connected"

\* C23: an AuthenticationResponse selecting NotAcceptable makes connect fail
\* with NotAcceptable, one selecting GSSAPI makes it fail with
\* UnsupportMethodGssApi; in both cases the client writes no further bytes:
\* all it ever wrote is its AuthenticationRequest.
C23_MethodRefused ==
    /\ Selected("NotAcceptable")
          => /\ c_pc = "Failed"
             /\ c_result = ClientError("NotAcceptable")
    /\ Selected("GSSAPI")
          => /\ c_pc = "Failed"
             /\ c_result = ClientError("UnsupportMethodGssApi")
    /\ (Selected("NotAcceptable") \/ Selected("GSSAPI"))
          => /\ Len(c_writes) = 1
             /\ c2s = FirstMessage
             /\ Len(c_reads) = 1
             /\ ~ENABLED ClientNext

C23_Witness ==
    /\ Selected("GSSAPI")
    /\ c_auth_info # NoVal
    /\ c_result = ClientError("UnsupportMethodGssApi")
    /\ Len(s2c) > 0

\* the NotAcceptable half of C23 is reached as well
C23_NotAcceptableReached ==
    /\ Selected("NotAcceptable")
    /\ c_reads[1].bytes = <<5, 255>>
    /\ c_result = ClientError("NotAcceptable")
    /\ Len(s2c) > 0

\* the client has completed a read of a sub-negotiation response that took
\* at least one byte off the wire
SubNegotiationAnswered ==
    /\ Len(c_reads) >= 2
    /\ c_reads[2].op = "SubNegotiationAuthenticationResponse"
    /\ c_reads[2].bytes # << >>

\* C26: a sub-negotiation response whose first byte is not 1 is a decode
\* error GeneralFailure raised without reading the result byte, so connect
\* fails with a socks error and not with AuthFailure; when the first byte is
\* 1 the response is a success exactly when the second byte is 0.
C26_SubNegotiationVersion ==
    /\ (SubNegotiationAnswered /\ c_reads[2].bytes[1] # 1)
          => /\ Len(c_reads[2].bytes) = 1
             /\ c_reads[2].out.st = "err"
             /\ c_reads[2].out.reply = "GeneralFailure"
             /\ c_pc = "Failed"
             /\ c_result = SocksError("GeneralFailure")
             /\ Len(c_writes) = 2
    /\ (SubNegotiationAnswered /\ c_reads[2].bytes[1] = 1
                               /\ Len(c_reads[2].bytes) = 2)
          => /\ c_reads[2].out.st = "ok"
             /\ Success(c_reads[2].out.val) = (c_reads[2].bytes[2] = 0)
             /\ (c_result = ClientError("AuthFailure"))
                    = (c_reads[2].bytes[2] # 0)
             /\ c_reads[2].bytes[2] # 0 => c_pc = "Failed"
    /\ \A s \in PeerSubNegotiationAnswers :
          LET r == SubNegotiationAuthenticationResponseDecode(s, 0) IN
          /\ s[1] # 1 => (r.st = "err" /\ r.reply = "GeneralFailure" /\ r.n = 1)
          /\ (s[1] = 1 /\ Len(s) = 2)
                => (r.st = "ok" /\ Success(r.val) = (s[2] = 0))

\* the client has read the answer 00 00: one byte taken, the result byte
\* left on the wire, connect failed with the socks error
C26_Witness ==
    /\ SubNegotiationAnswered
    /\ c_reads[2].bytes = <<0>>
    /\ c_result = SocksError("GeneralFailure")
    /\ Len(s2c) > 0
    /\ s2c[1] = 0

\* both outcomes of a version 1 answer are reached
C26_VersionOneReached ==
    /\ SubNegotiationAnswered
    /\ c_reads[2].bytes = <<1, 255>>
    /\ c_result = ClientError("AuthFailure")

\* the messages connect writes
ClientMessages ==
    { "AuthenticationRequest", "SubNegotiationAuthenticationRequest",
      "TcpRequestHeader" }

\* no message is written twice, and the first read that does not yield a
\* message is the last operation of connect, which has failed with its error
NoRetry ==
    /\ \A kind \in ClientMessages : CountWrites(c_writes, kind) <= 1
    /\ \A i \in 1..Len(c_reads) :
          c_reads[i].out.st \in {"err", "eof"}
              => /\ i = Len(c_reads)
                 /\ Len(c_writes) = i
                 /\ c_pc = "Failed"
                 /\ c_result = SocksError(c_reads[i].out.reply)
    /\ c_result = IoError
          => /\ c_pc = "Failed"
             /\ Len(c_writes) = Len(c_reads)

\* C24: the client never retries: each of the AuthenticationRequest, the
\* sub-negotiation request and the TcpRequestHeader is written at most once,
\* the first I/O error or malformed response ends the handshake in Failed
\* with that error, and, every transport operation completing, the
\* handshake always terminates in Connected or Failed.
C24_NoRetryTerminates ==
    /\ NoRetry
    /\ ~ENABLED ClientNext => c_pc \in {"Connected", "Failed"}

(***************************************************************************)
(* Further claims about proxy, checked under SpecServer.                   *)
(***************************************************************************)
\* method lists with a byte that is no method among them
OffersWithUnknown ==
    { m \in SeqsUpTo(MethodBytes \cup {3, 9}, MaxMethods) :
        \E i \in 1..Len(m) : m[i] \notin MethodBytes }

\* the server has read, in full, an AuthenticationRequest of version 5 with
\* a method byte that is no method
UnknownMethodOffered ==
    /\ Len(s_reads) >= 1
    /\ Len(s_reads[1].bytes) >= 2
    /\ s_reads[1].bytes[1] = 5
    /\ Len(s_reads[1].bytes) = 2 + s_reads[1].bytes[2]
    /\ \E i \in 3..Len(s_reads[1].bytes) : s_reads[1].bytes[i] \notin MethodBytes

\* C27: an AuthenticationRequest or AuthenticationResponse with a method
\* byte outside {0, 1, 2, 0xFF} fails to decode with GeneralFailure, even
\* when NONE is offered as well; when this, or any other failure, occurs
\* while the server reads the AuthenticationRequest, proxy returns the error
\* having written zero bytes.
C27_UnknownMethod ==
    /\ \A b \in 0..U8Max : (MethodTryFrom(b) = "unsupported") = (b \notin MethodBytes)
    /\ \A m \in OffersWithUnknown :
          LET r == Read("AuthenticationRequest", <<5, Len(m)>> \o m) IN
          r.st = "err" /\ r.reply = "GeneralFailure"
    /\ \A b \in SampleBytes \ MethodBytes :
          LET r == Read("AuthenticationResponse", <<5, b>>) IN
          r.st = "err" /\ r.reply = "GeneralFailure"
    /\ UnknownMethodOffered
          => /\ s_reads[1].out.st = "err"
             /\ s_reads[1].out.reply = "GeneralFailure"
    /\ (Len(s_reads) >= 1 /\ s_reads[1].out.st # "ok")
          => /\ s_pc = "Done"
             /\ s_result = SocksError(s_reads[1].out.reply)
             /\ s_writes = << >>
             /\ s2c = << >>
             /\ Len(s_reads) = 1
             /\ lookups = 0
             /\ dials = 0

\* the offer 05 02 00 09, NONE among its methods, has made proxy return
\* GeneralFailure without a byte written
C27_Witness ==
    /\ UnknownMethodOffered
    /\ s_reads[1].bytes = <<5, 2, 0, 9>>
    /\ s_pc = "Done"
    /\ s_result = SocksError("GeneralFailure")
    /\ s2c = << >>

\* another failure of the first read: a version that is not 5
C27_BadVersionReached ==
    /\ Len(s_reads) = 1
    /\ s_reads[1].bytes = <<4>>
    /\ s_result = SocksError("ConnectionRefused")
    /\ s2c = << >>

\* the server has answered the method negotiation with NotAcceptable
NotAcceptableAnswered ==
    /\ Len(s_writes) >= 1
    /\ s_writes[1] = Written("AuthenticationResponse", <<5, 255>>)

\* C30: answering NotAcceptable does not end the server handshake: proxy
\* goes on to read the TcpRequestHeader and dispatches on its command
\* exactly as after NONE; a Connect request that follows NotAcceptable is
\* resolved, dialled and relayed.
C30_NotAcceptableContinues ==
    /\ [](NotAcceptableAnswered
            => /\ RequiredAuthentication(s_request)
               /\ Len(s_reads) = 1 => (s_pc = "AuthNegotiated" /\ s_result = NoResult)
               /\ Len(s_reads) >= 2 => s_reads[2].op = "TcpRequestHeader"
               /\ s_pc = "Done" => Len(s_reads) = 2
               /\ (s_pc = "Done" /\ s_header # NoVal /\ s_header.command = "Connect")
                     => \/ lookups = 1 /\ s_err = SocksError("HostUnreachable")
                        \/ lookups = 1 /\ dials = 1)
    /\ [][ (s_pc = "AuthNegotiated" /\ s_pc' # s_pc)
              => /\ Len(s_reads') = 2
                 /\ s_reads'[2].op = "TcpRequestHeader"
                 /\ s_reads'[2].out.st = "ok"
                       => s_pc' = (IF s_reads'[2].out.val.command = "Connect"
                                   THEN "Resolve" ELSE "NotSupported") ]_vars

\* after NotAcceptable a Connect request has been resolved and dialled, the
\* Succeeded reply written, and bytes relayed in both directions
C30_Witness ==
    /\ NotAcceptableAnswered
    /\ s_header # NoVal
    /\ s_header.command = "Connect"
    /\ lookups = 1
    /\ dials = 1
    /\ Len(s_writes) = 2
    /\ IsSucceededReply(2)
    /\ s2d # << >>
    /\ Len(s2c) > Len(HandshakeReplies)

(***************************************************************************)
(* SpecHandshakes: the library in either of its two roles: connect against *)
(* any peer, or proxy against any client.                                  *)
(***************************************************************************)
HandshakesInit == ClientInit \/ ServerInit

HandshakesNext ==
    \/ CWriteAuthenticationRequest
    \/ CReadAuthenticationResponse
    \/ CWriteSubNegotiationRequest
    \/ CReadSubNegotiationResponse
    \/ CWriteTcpRequestHeader
    \/ CReadTcpResponseHeader
    \/ SReadAuthenticationRequest
    \/ SWriteAuthenticationResponse
    \/ SReadTcpRequestHeader
    \/ SWriteDecodeFailure
    \/ SResolve
    \/ SWriteResolveFailure
    \/ SDial
    \/ SWriteSucceeded
    \/ SWriteNotSupported
    \/ CopyFill
    \/ CopyWrite
    \/ PeerClientSend
    \/ PeerClientClose
    \/ PeerDestSend
    \/ PeerDestClose

SpecHandshakes == HandshakesInit /\ [][HandshakesNext]_vars

\* the addresses a reply of the server can carry: the client's, the
\* requested one, the resolved one
ReplyAddresses == { s_src, s_dest_addr } \cup
                  (IF s_header = NoVal THEN {} ELSE { s_header.address })

\* the wire form of the address a: ATYP, the address, the port high byte
\* first
AddressOnWire(a) ==
    CASE a.kind = "V4" -> <<1>> \o a.host \o <<a.port \div 256, a.port % 256>>
      [] a.kind = "V6" -> <<4>> \o a.host \o <<a.port \div 256, a.port % 256>>
      [] a.kind = "Domain" ->
            <<3, Len(a.host)>> \o a.host \o <<a.port \div 256, a.port % 256>>

\* the bytes w of a written message of the given kind are the version byte
\* 5 and the encoding of a message of that kind
FramedWrite(w) ==
    /\ w.bytes[1] = 5
    /\ CASE w.msg = "AuthenticationRequest" ->
                /\ Len(w.bytes) = 2 + w.bytes[2]
                /\ \A i \in 3..Len(w.bytes) : w.bytes[i] \in MethodBytes
         [] w.msg = "AuthenticationResponse" ->
                /\ Len(w.bytes) = 2
                /\ w.bytes[2] \in MethodBytes
         [] w.msg = "TcpRequestHeader" ->
                /\ SubSeq(w.bytes, 1, 3) = <<5, 1, 0>>
                /\ Drop(w.bytes, 3) = AddressOnWire(c_dest)
         [] w.msg = "TcpResponseHeader" ->
                /\ w.bytes[2] \in 0..8
                /\ w.bytes[3] = 0
                /\ \E a \in ReplyAddresses \ {NoVal} :
                      Drop(w.bytes, 3) = AddressOnWire(a)
         [] OTHER -> FALSE

\* C25: every top-level message written by the client or by the server is
\* the byte 0x05 followed by the encoding of the message; for the two
\* headers the encoding is the command or reply byte, a reserved 0 and the
\* encoding of the address; the sub-negotiation request is the only message
\* written without the 0x05 prefix, and it starts with the sub-negotiation
\* version 1.
C25_Framing ==
    /\ \A i \in 1..Len(c_writes) :
          IF c_writes[i].msg = "SubNegotiationAuthenticationRequest"
          THEN /\ c_writes[i].bytes[1] = 1
               /\ c_writes[i].bytes
                    = <<1, Len(c_auth_info.username)>> \o c_auth_info.username
                        \o <<Len(c_auth_info.password)>> \o c_auth_info.password
          ELSE FramedWrite(c_writes[i])
    /\ \A i \in 1..Len(s_writes) : FramedWrite(s_writes[i])
    /\ c_pc # "off" => c2s = WrittenBytes(c_writes)
    /\ (s_pc # "off" /\ ~RelayStarted) => s2c = WrittenBytes(s_writes)

\* the client has written its three messages, the second of them unframed
C25_Witness ==
    /\ Len(c_writes) = 3
    /\ c_writes[1].msg = "AuthenticationRequest"
    /\ c_writes[2].msg = "SubNegotiationAuthenticationRequest"
    /\ c_writes[2].bytes = <<1, 1, 117, 2, 112, 119>>
    /\ c_writes[3].msg = "TcpRequestHeader"
    /\ c_dest.kind = "V4"

\* the server has written its two messages
C25_ServerReached ==
    /\ Len(s_writes) = 2
    /\ s_writes[1].msg = "AuthenticationResponse"
    /\ s_writes[2].msg = "TcpResponseHeader"
    /\ s_writes[2].bytes[2] = 0
    /\ s_writes[2].bytes[4] = 4

(***************************************************************************)
(* SpecConstruct: the public constructors of the two types that carry a    *)
(* one-byte length on the wire, applied to arguments of lengths around     *)
(* the limits, followed by encode and, for an Address, by decode of the    *)
(* encoding.                                                               *)
(***************************************************************************)
\* SubNegotiationAuthenticationRequest::new
SubNegotiationAuthenticationRequestNew(username, password) ==
    IF Len(username) > U8Max \/ Len(password) > U8Max
    THEN Err("GeneralFailure", 0)
    ELSE Ok(SubNegotiationAuthenticationRequest(username, password), 0)

\* impl From<(T, U)> for SubNegotiationAuthenticationRequest
SubNegotiationAuthenticationRequestFrom(username, password) ==
    Ok(SubNegotiationAuthenticationRequest(username, password), 0)

\* impl From<(T, u16)> for Address: extend_from_slice panics beyond the
\* capacity of the ArrayVec
AddressFrom(host, port) ==
    IF Len(host) > DomainCapacity THEN Panic(0) ELSE Ok(DomainName(host, port), 0)

\* a string of n bytes
BytesOfLen(n) == [i \in 1..n |-> 97 + (i % 26)]

CredentialLens == {0, 1, U8Max, U8Max + 1, U8Max + 2}

HostLens == {0, 1, U8Max, U8Max + 1, U8Max + 2, DomainCapacity, DomainCapacity + 1}

GivenCredentials ==
    { [kind |-> "credentials", username |-> BytesOfLen(a), password |-> BytesOfLen(b)] :
        a \in CredentialLens, b \in CredentialLens }

GivenHosts ==
    { [kind |-> "host", host |-> BytesOfLen(n), port |-> p] :
        n \in HostLens, p \in {80, 65535} }

\* streams holding the encoding of a domain name, whole or cut short
GivenStreams ==
    { [kind |-> "stream",
       bytes |-> SubSeq(<<3, n>> \o BytesOfLen(n) \o <<1, 187>>, 1, n + 4 - cut)] :
        n \in {0, 1, U8Max}, cut \in {0, 1} }

ConstructInit ==
    /\ NetOff
    /\ parked = NoVal
    /\ ClientOff
    /\ ServerOff
    /\ codecOp = "idle"
    /\ codecIn = << >>
    /\ codecAddr = NoVal
    /\ codecOut = Eof(0)
    /\ given \in GivenCredentials \cup GivenHosts \cup GivenStreams
    /\ built = NoVal
    /\ wire = NoVal
    /\ back = NoVal

\* a constructor op is applied to given, with result r
Construct(op, r) ==
    /\ codecOp = "idle"
    /\ codecOp' = op
    /\ codecOut' = r
    /\ built' = r.val
    /\ UNCHANGED <<parked, codecIn, codecAddr, given, wire, back, netVars, clientVars,
                   serverVars, relayVars>>

DoNew ==
    /\ given.kind = "credentials"
    /\ Construct("SubNegotiationAuthenticationRequest::new",
                 SubNegotiationAuthenticationRequestNew(given.username, given.password))

DoFromPair ==
    /\ given.kind = "credentials"
    /\ Construct("SubNegotiationAuthenticationRequest::from",
                 SubNegotiationAuthenticationRequestFrom(given.username, given.password))

DoAddressFrom ==
    /\ given.kind = "host"
    /\ Construct("Address::from", AddressFrom(given.host, given.port))

DoAddressFromDecode ==
    /\ given.kind = "stream"
    /\ Construct("Address::decode", AddressDecode(given.bytes, 0))

\* encode of the value constructed
DoEncode ==
    /\ built # NoVal
    /\ wire = NoVal
    /\ wire' = IF built.kind = "SubNegotiationAuthenticationRequest"
               THEN SubNegotiationAuthenticationRequestEncode(built)
               ELSE AddressEncode(built)
    /\ UNCHANGED <<parked, codecOp, codecIn, codecAddr, codecOut, given, built, back,
                   netVars, clientVars, serverVars, relayVars>>

\* Address::decode of the encoding of the Address constructed
DoDecodeBack ==
    /\ wire # NoVal
    /\ back = NoVal
    /\ built.kind = "Domain"
    /\ back' = AddressDecode(wire, 0)
    /\ UNCHANGED <<parked, codecOp, codecIn, codecAddr, codecOut, given, built, wire,
                   netVars, clientVars, serverVars, relayVars>>

ConstructNext ==
    \/ DoNew
    \/ DoFromPair
    \/ DoAddressFrom
    \/ DoAddressFromDecode
    \/ DoEncode
    \/ DoDecodeBack

SpecConstruct == ConstructInit /\ [][ConstructNext]_vars

\* a SubNegotiationAuthenticationRequest has been constructed
CredentialsBuilt ==
    built # NoVal /\ built.kind = "SubNegotiationAuthenticationRequest"

\* C28: every SubNegotiationAuthenticationRequest that can be constructed
\* through the public API (new, or From<(T, U)>) has a username and a
\* password of at most 255 bytes, so that the ULEN and PLEN bytes of its
\* encoding equal the numbers of username and password bytes that follow.
C28_CredentialsFit ==
    CredentialsBuilt
        => /\ Len(built.username) <= U8Max
           /\ Len(built.password) <= U8Max
           /\ wire # NoVal
                => /\ wire[2] = Len(built.username)
                   /\ wire[3 + Len(built.username)] = Len(built.password)
                   /\ Len(wire) = 3 + Len(built.username) + Len(built.password)

\* From has built a request with a username of 256 bytes, and encode has
\* written ULEN 0 in front of the 256 bytes
C28_TruncatedReached ==
    /\ CredentialsBuilt
    /\ codecOp = "SubNegotiationAuthenticationRequest::from"
    /\ Len(built.username) = U8Max + 1
    /\ wire # NoVal
    /\ wire[2] = 0
    /\ Len(wire) >= 3 + U8Max + 1

\* what new constructs does fit
C28_NewFits ==
    codecOp = "SubNegotiationAuthenticationRequest::new" => C28_CredentialsFit

\* an Address::DomainName has been constructed
DomainNameBuilt == built # NoVal /\ built.kind = "Domain"

\* C29: every Address::DomainName that can be constructed (by decode, or by
\* From<(T, u16)>) has a name of at most 255 bytes, so that the length byte
\* of its encoding equals the number of name bytes written, and the
\* encoding decodes back to the same Address.
C29_DomainNameFits ==
    DomainNameBuilt
        => /\ Len(built.host) <= U8Max
           /\ wire # NoVal
                => /\ wire[2] = Len(built.host)
                   /\ Len(wire) = 4 + Len(built.host)
           /\ back # NoVal => back = Ok(built, Len(wire))

\* From has built a name of 256 bytes; its encoding has the length byte 0
\* and decodes to the empty name with the port taken from the name's bytes
C29_TruncatedReached ==
    /\ DomainNameBuilt
    /\ codecOp = "Address::from"
    /\ Len(built.host) = U8Max + 1
    /\ wire # NoVal
    /\ wire[2] = 0
    /\ back # NoVal
    /\ back.st = "ok"
    /\ back.val.host = << >>
    /\ back.val.port # built.port

\* what decode constructs does fit
C29_DecodedFits ==
    codecOp = "Address::decode" => C29_DomainNameFits

(***************************************************************************)
(* Claims about the replies of proxy, checked under SpecServer.            *)
(***************************************************************************)
\* the server has written a TcpResponseHeader whose reply is not Succeeded
FailureReplied ==
    \E i \in 1..Len(s_writes) :
        s_writes[i].msg = "TcpResponseHeader" /\ s_writes[i].bytes[2] # 0

\* C31: in every run of proxy the server writes at most one
\* AuthenticationResponse and at most one TcpResponseHeader to the client;
\* once a TcpResponseHeader with a reply other than Succeeded has been
\* written, no further byte is written to the client and no relay is
\* started.
C31_OneReply ==
    /\ [](/\ CountWrites(s_writes, "AuthenticationResponse") <= 1
          /\ CountWrites(s_writes, "TcpResponseHeader") <= 1
          /\ Len(s_writes) <= 2
          /\ Len(s_writes) >= 1 => s_writes[1].msg = "AuthenticationResponse"
          /\ FailureReplied
                => /\ s_pc = "Done"
                   /\ ~RelayStarted
                   /\ dest_tcp # "connected"
                   /\ s2c = WrittenBytes(s_writes))
    /\ [][ FailureReplied => (s2c' = s2c /\ s_writes' = s_writes /\ s_pc' = s_pc) ]_vars

\* a Bind request has been answered CommandNotSupported and proxy has
\* returned Ok with nothing relayed
C31_Witness ==
    /\ FailureReplied
    /\ Len(s_writes) = 2
    /\ s_writes[2].bytes[2] = 7
    /\ s_header.command = "Bind"
    /\ s_result = OkResult
    /\ s_pc = "Done"
    /\ cClosed

\* the one reply of a successful Connect is reached as well, with payload
\* written to the client after it
C31_SucceededReached ==
    /\ Len(s_writes) = 2
    /\ IsSucceededReply(2)
    /\ ~FailureReplied
    /\ Len(s2c) > Len(HandshakeReplies)

\* the server has read, as its second read, a request of version 5 whose
\* command byte is no command
UnknownCommandRead ==
    /\ Len(s_reads) >= 2
    /\ s_reads[2].op = "TcpRequestHeader"
    /\ Len(s_reads[2].bytes) >= 2
    /\ s_reads[2].bytes[1] = 5
    /\ s_reads[2].bytes[2] \notin {1, 2, 3}

\* C32: a TcpRequestHeader whose command byte is outside {1, 2, 3} fails to
\* decode with an Error of reply GeneralFailure before its reserved and
\* address bytes are read, so the server answers it with reply
\* GeneralFailure (not CommandNotSupported) against the inbound peer
\* address, and leaves the rest of the request unread.
C32_UnknownCommand ==
    /\ \A b \in (0..U8Max) \ {1, 2, 3} :
          /\ CommandTryFrom(b) = "unsupported"
          /\ \A a \in RequestAddresses :
                TcpRequestHeaderDecode(<<b, 0>> \o AddressEncode(a), 0)
                    = Err("GeneralFailure", 1)
    /\ UnknownCommandRead
          => /\ Len(s_reads[2].bytes) = 2
             /\ s_reads[2].out = Err("GeneralFailure", 2)
             /\ s_err = SocksError("GeneralFailure")
             /\ s_pc \in {"DecodeFailed", "Done"}
             /\ NeverConnects
             /\ Len(s_writes) = 2
                   => /\ s_writes[2]
                           = Written("TcpResponseHeader",
                                     <<5, 1, 0>> \o AddressOnWire(s_src))
                      /\ s_writes[2].bytes[2] # 7
                      /\ s_result = SocksError("GeneralFailure")

\* the request 05 09 00 03 01 61 00 50 has been answered GeneralFailure with
\* the peer's address, its reserved byte and address still on the wire
C32_Witness ==
    /\ UnknownCommandRead
    /\ s_reads[2].bytes = <<5, 9>>
    /\ c2s = <<0, 3, 1, 97, 0, 80>>
    /\ s_pc = "Done"
    /\ s_result = SocksError("GeneralFailure")
    /\ s_writes[2].bytes = <<5, 1, 0, 1, 192, 168, 0, 9, 18, 52>>

\* the command byte 0 is rejected the same way
C32_CommandZeroReached ==
    /\ UnknownCommandRead
    /\ s_reads[2].bytes = <<5, 0>>
    /\ Len(s_writes) = 2
    /\ s_writes[2].bytes[2] = 1
    /\ Len(c2s) = 6

====
